---- MODULE Spec2Model ----
(***************************************************************************)
(* A model of the MCHPRS-RoC core: the server coordinator                  *)
(* (crates/core/src/server.rs) and the plot workers                        *)
(* (crates/core/src/plot/mod.rs).                                          *)
(*                                                                         *)
(* Spec      the coordinator, the plot worker threads and the three        *)
(*           message carriers (server inbox, private inboxes, broadcast    *)
(*           bus); a player's position is abstracted to pos.plot_pos().    *)
(* FairSpec  Spec with the scheduling fairness of OS threads.              *)
(* SpecCrash Spec with plot workers that panic inside their loop.          *)
(* SpecRespawn  Spec with more worker threads in one run than MaxWorkers:  *)
(*           the slot of a finished thread is reused.                      *)
(* SpecIdle     one plot worker's loop against the clock: idle eviction.   *)
(* SpecTick     the pending-tick queue of one PlotWorld and Plot::tick.    *)
(* SpecDelay    SpecTick with the ticks counted: when each entry fires.    *)
(* SpecBackend  one plot's backend lifecycle: start_backend, the builder   *)
(*              thread, activation, reset_backend and block interactions.  *)
(* SpecBlocks   the block storage of one PlotWorld: set_block_raw,         *)
(*              get_block_raw and flush_block_changes.                     *)
(* SpecView     the chunks update_view_pos_for_player sends to one player. *)
(* SpecPlate    players moving over pressure plates: on_player_move.       *)
(* SpecPlateLeave    SpecPlate with players that leave the plot, disconnect *)
(*              and enter.                                                 *)
(* SpecPlateBackend  SpecPlate while backends are started, activated and   *)
(*              reset.                                                     *)
(* SpecBus      the broadcast bus from the coordinator to the plot workers.*)
(* SpecLogin    one connection from its handshake to its promotion to a    *)
(*              Player.                                                    *)
(* SpecForward  SpecLogin behind a proxy, with clients that make plugin    *)
(*              responses up.                                              *)
(* SpecSenders  the players of one plot and the packet senders of its      *)
(*              world through enters, leaves, disconnects and shutdown.    *)
(* SpecCalls    Spec with the calls and broadcasts of the coordinator      *)
(*              written down.                                              *)
(* SpecUse      one plot's backend and the use-item-on-block packets of    *)
(*              its players: handle_use_item_impl.                         *)
(* SpecPace     the tick step of Plot::update against the clock: batch     *)
(*              size, lag_time and last_nspt.                              *)
(* SpecTickStep the tick step of Plot::update against the pending ticks,   *)
(*              the dirty blocks and the backend of the plot.              *)
(* SpecSave     the blocks of one plot through Plot::save and Plot::load.  *)
(***************************************************************************)
EXTENDS Integers, Sequences, FiniteSets, TLC

\* ------------------------------------------------------------- bounds
MaxPlotX == 1
NumConns == 2
NumNames == 2
MaxWorkers == 2
MaxHalfSeconds == 4
MaxDelay == 2
MaxScheduled == 3
MaxStarts == 2
MaxBlockId == 1
NumSinks == 2
MaxViewDistance == 2
NumPlates == 2
NumResidents == 2
MaxBroadcasts == 3
MaxPackets == 4
MaxSavedId == 2
MaxUseScheduled == 1
MaxPlateStarts == 1
MaxPaceScheduled == 1
MaxMessageId == 2
NumSenderConns == 3
MaxTicks == 4

\* ---------------------------------------------------------- constants
IdleLimitSecs == 600
MillisPerSec == 1000
PROTOCOL_VERSION == 765
PLOT_SCALE == 5
PLOT_WIDTH == 2 ^ PLOT_SCALE
PLOT_BLOCK_WIDTH == PLOT_WIDTH * 16
NUM_CHUNKS == PLOT_WIDTH ^ 2
PLOT_SECTIONS == 24
PLOT_BLOCK_HEIGHT == PLOT_SECTIONS * 16

Plots == {<<x, 0>> : x \in 0..MaxPlotX}
SpawnPlot == <<0, 0>>
NoPlot == <<>>
Conns == 1..NumConns
Names == 1..NumNames
WorkerIds == 1..MaxWorkers

VARIABLES
    \* ---- coordinator (MinecraftServer)
    srv_pc,            \* "run" | "shutdown_outer" | "shutdown_inner" | "exited"
    inbox,             \* MinecraftServer.receiver: FIFO of Message
    online_players,    \* uuid -> plot of the PlayerListEntry, NoPlot when absent
    running_plots,     \* Vec<PlotListEntry>: <<[plot, tx]>>
    whitelist,         \* Option<Vec<WhitelistEntry>>: TRUE when Some
    whitelist_written, \* whitelist.json written by graceful_shutdown
    exit_code,         \* -1 while the process runs
    \* ---- plot worker threads, by thread slot
    pc,                \* "none" | "load" | "loop" | "drop" | "final_save" | "exited"
    plot_of,           \* PlotWorld.x, PlotWorld.z
    always_running,
    running,
    players,           \* Plot.players
    initial_player,    \* the Option<Player> given to load_and_run, as a sequence
    priv_inbox,        \* priv_message_receiver: FIFO of PrivMessage
    bus_rx,            \* message_receiver: broadcasts not yet read
    \* ---- clients
    exists,            \* "new" | "live" (a Player value was made) | "gone" (removed on purpose)
    pending,           \* the plot the coordinator last routed the player to, until integrated
    \* ---- one plot worker against the clock
    idle,              \* [elapsed: last_player_time.elapsed() in ms, players: players.len(),
                       \*  always_running, running]
    idle_checked,      \* the elapsed ms the idle check of the last iteration read, -1 if not reached
    \* ---- one PlotWorld and its Plot
    to_be_ticked,      \* PlotWorld.to_be_ticked: Vec<TickEntry>, each with its insertion number
    next_id,           \* the insertion number of the next schedule_tick
    pre_tick,          \* to_be_ticked as the last interpreter tick found it
    last_fired,        \* the entries the last interpreter tick handed to mchprs_redstone::tick
    active_backend,    \* Option<usize>: None or Some(i), i counted from 1
    backends,          \* Plot.backends: the backends the builder threads pushed
    builders,          \* builder threads of start_backend still compiling
    activated,         \* the backends whose completion was handled
    world_state,       \* Some(n): the blocks are the terminal state the backend of the
                       \* n-th start_backend wrote through reset; None: the interpreter changed them
    lifecycle,         \* "idle" | "started" | "reset": reset_backend just ran after a start_backend
    starts,            \* the number of start_backend calls
    \* ---- the block storage of one PlotWorld
    world_xz,          \* <<PlotWorld.x, PlotWorld.z>>
    chunks,            \* PlotWorld.chunks: <<chunk index, x, y, z>> -> block id, air left out
    multi_blocks,      \* the cells on the chunks' dirty lists
    client_view,       \* per packet sender: the cells the packets sent to it add up to
    block_op,          \* the last call: its arguments, its return value and its packets
    last_set,          \* per position inside the plot: the id of the last set_block_raw there
    oob_used,          \* a set_block_raw was called with a position outside the plot
    world_panicked,    \* chunks[chunk_index] was indexed out of range
    \* ---- one player's view of the chunks around it
    view_distance,     \* CONFIG.view_distance
    last_chunk,        \* <<Player.last_chunk_x, Player.last_chunk_z>>
    view_op,           \* the last update_view_pos_for_player: the chunk the player was in,
                       \* the chunk it is in, force_load and the packets sent to the player
    \* ---- the players of one plot and the blocks they stand on
    plates,            \* per block: "on" / "off" for StonePressurePlate { powered }, "none"
    player_pos,        \* per player: Player.pos.block_pos()
    on_ground,         \* per player: Player.on_ground
    plate_op,          \* the last on_player_move: player_idx, the two block positions and
                       \* the two blocks it read
    \* ---- the broadcast bus
    bus_log,           \* every BroadcastMessage the coordinator broadcast, in order
    bus_reader,        \* per plot worker: its BusReader ("none" | "open" | "closed") and the
                       \* position in bus_log of the message its next try_recv returns
    bus_sub,           \* per plot worker: the position in bus_log its add_rx started at
    bus_handled,       \* per plot worker: the messages handle_messages acted on, in order
    \* ---- one connection in MinecraftServer.network.handshaking_clients
    login_cfg,         \* MinecraftServer.whitelist (None when disabled) and CONFIG.velocity
    login_conn,        \* the connection: the state its reader decodes in, the packets decoded
                       \* and not yet handled, username, uuid, the packets sent to it, ...
    \* ---- block breaking
    interact_op,       \* the last handle_player_digging that passed the bounds and permission
                       \* checks: the backend it found, the message and block resync it sent,
                       \* whether it reset the backend and whether it destroyed the block
    \* ---- the plot's save file
    plot_file,         \* data::load_plot of ./world/plots/p<X>,<Z>: None or Some(PlotData)
    chunk_xz,          \* per chunk index: <<Chunk.x, Chunk.z>> of the chunk from_data put there
    save_op,           \* the last Plot::save: the ids last written at the positions inside the plot
    \* ---- tick pacing of one plot worker
    pace,              \* Plot.tps, world_send_rate, lag_time (ns), last_nspt (ns) and whether update panicked
    pace_op,           \* the last Plot::update: whether players were present, the time since last_update_time, lag_time and last_nspt before it, its batch size, the ticks it ran and whether it flushed
    \* ---- the coordinator, call by call
    srv_op,            \* the last handle_message: the message and the calls it made, in order
    srv_broadcasts,    \* every BroadcastMessage the coordinator broadcast: its type and uuid
    poll_op,           \* graceful_shutdown: whether receiver.try_recv was called, and whether the thread slept since
    \* ---- the players of one plot and the packet senders of its world
    plot_players,      \* Plot.players, each player by its connection
    packet_senders,    \* PlotWorld.packet_senders, each PlayerPacketSender by the connection it writes to
    sender_op,         \* the last step of the plot: its kind, its player and the connections a world packet was written to
    \* ---- the interpreter ticks of one plot, counted
    tick_no,           \* the number of interpreter ticks so far
    tick_log           \* per insertion number: the delay, the tick count when schedule_tick ran, whether a tick was running, and the ticks in which the entry fired

srvVars == <<srv_pc, inbox, online_players, running_plots, whitelist,
             whitelist_written, exit_code>>
plotVars == <<pc, plot_of, always_running, running, players, initial_player,
              priv_inbox, bus_rx>>
clientVars == <<exists, pending>>
routeVars == <<srvVars, plotVars, clientVars>>
idleVars == <<idle, idle_checked>>
tickVars == <<to_be_ticked, next_id, pre_tick, last_fired>>
backendVars == <<active_backend, backends, builders, activated, world_state, lifecycle, starts>>
blockVars == <<world_xz, chunks, multi_blocks, client_view, block_op, last_set,
               oob_used, world_panicked>>
viewVars == <<view_distance, last_chunk, view_op>>
plateVars == <<plates, player_pos, on_ground, plate_op>>
interactVars == <<interact_op>>
busVars == <<bus_log, bus_reader, bus_sub, bus_handled>>
loginVars == <<login_cfg, login_conn>>
saveVars == <<plot_file, chunk_xz, save_op>>
paceVars == <<pace, pace_op>>
coordVars == <<srv_op, srv_broadcasts, poll_op>>
senderVars == <<plot_players, packet_senders, sender_op>>
delayVars == <<tick_no, tick_log>>
extraVars == <<blockVars, viewVars, plateVars, interactVars, busVars, loginVars, saveVars, paceVars, coordVars, senderVars, delayVars>>
coreVars == <<routeVars, idleVars, tickVars, backendVars>>
notBlockVars == <<coreVars, viewVars, plateVars, interactVars, busVars, loginVars, saveVars, paceVars, coordVars, senderVars, delayVars>>
notViewVars == <<coreVars, blockVars, plateVars, interactVars, busVars, loginVars, saveVars, paceVars, coordVars, senderVars, delayVars>>
notPlateVars == <<coreVars, blockVars, viewVars, interactVars, busVars, loginVars, saveVars, paceVars, coordVars, senderVars, delayVars>>
notInteractVars == <<blockVars, viewVars, plateVars, busVars, loginVars, saveVars, paceVars, coordVars, senderVars, delayVars>>
notBusVars == <<coreVars, blockVars, viewVars, plateVars, interactVars, loginVars, saveVars, paceVars, coordVars, senderVars, delayVars>>
notLoginVars == <<coreVars, blockVars, viewVars, plateVars, interactVars, busVars, saveVars, paceVars, coordVars, senderVars, delayVars>>
notSaveVars == <<coreVars, blockVars, viewVars, plateVars, interactVars, busVars, loginVars, paceVars, coordVars, senderVars, delayVars>>
notPaceVars == <<coreVars, blockVars, viewVars, plateVars, interactVars, busVars, loginVars, saveVars, coordVars, senderVars, delayVars>>
notCoordVars == <<coreVars, blockVars, viewVars, plateVars, interactVars, busVars, loginVars, saveVars, paceVars, senderVars, delayVars>>
notCoordWorldVars == <<idleVars, tickVars, backendVars, blockVars, viewVars, plateVars,
                       interactVars, busVars, loginVars, saveVars, paceVars, senderVars, delayVars>>
notSenderVars == <<coreVars, blockVars, viewVars, plateVars, interactVars, busVars, loginVars, saveVars, paceVars, coordVars, delayVars>>
notDelayVars == <<coreVars, blockVars, viewVars, plateVars, interactVars, busVars, loginVars, saveVars, paceVars, coordVars, senderVars>>
notDelayExtraVars == <<blockVars, viewVars, plateVars, interactVars, busVars, loginVars,
                       saveVars, paceVars, coordVars, senderVars>>
worldVars == <<idleVars, tickVars, backendVars, extraVars>>
vars == <<routeVars, worldVars>>

\* ------------------------------------------------------------ helpers
generate_offline_uuid(username) == <<"OfflinePlayer", username>>
Uuids == {generate_offline_uuid(n) : n \in Names}

Msg(type, arg) == [type |-> type, arg |-> arg]
CarriesPlayer(m) == m.type \in {"PlayerJoined", "PlayerLeavePlot", "PlayerEnterPlot"}

RemoveAt(s, i) == SubSeq(s, 1, i - 1) \o SubSeq(s, i + 1, Len(s))

PlayerIds(s) == {s[i].id : i \in 1..Len(s)}
MsgPlayerIds(q) == {q[i].arg.id : i \in {j \in 1..Len(q) : CarriesPlayer(q[j])}}

\* EntryIndex with plot_z compared against plot_x.
EntryIndex_swapped(plot) ==
    IF \E i \in 1..Len(running_plots) : running_plots[i].plot = <<plot[1], plot[1]>>
    THEN CHOOSE i \in 1..Len(running_plots) :
             /\ running_plots[i].plot = <<plot[1], plot[1]>>
             /\ \A j \in 1..(i - 1) : running_plots[j].plot # <<plot[1], plot[1]>>
    ELSE 0

\* Position of the first running_plots entry for a plot, 0 when there is none.
EntryIndex(plot) ==
    IF \E i \in 1..Len(running_plots) : running_plots[i].plot = plot
    THEN CHOOSE i \in 1..Len(running_plots) :
             /\ running_plots[i].plot = plot
             /\ \A j \in 1..(i - 1) : running_plots[j].plot # plot
    ELSE 0

\* Worker threads are numbered in the order they are spawned; at most
\* MaxWorkers are spawned in one run.
FreeSlot(w) == pc[w] = "none"
NextSlot == CHOOSE w \in WorkerIds : FreeSlot(w) /\ \A v \in 1..(w - 1) : ~FreeSlot(v)

\* The BusReader of a worker exists from add_rx until the Plot is dropped; a
\* worker that left its loop never reads it again.  Chat, PlayerJoinedInfo,
\* PlayerLeft and PlayerUpdateGamemode make a worker send packets to its players
\* and change nothing else, so only Shutdown is kept in bus_rx.
Reads(w) == pc[w] \in {"load", "loop"}
Broadcast(rx, m) ==
    [w \in WorkerIds |->
        IF Reads(w) /\ m.type = "Shutdown" THEN Append(rx[w], m) ELSE rx[w]]

\* mpsc::Sender::send: queued while the Receiver exists, Err (and the message
\* dropped by `let _ =`) once it is gone.
ReceiverExists(w) == pc[w] \in {"load", "loop", "drop", "final_save"}
PrivSend(q, w, m) == IF ReceiverExists(w) THEN [q EXCEPT ![w] = Append(@, m)] ELSE q

\* ------------------------------------------------------- coordinator
\* handle_plot_unload with plot_z compared against plot_x.
handle_plot_unload_swapped(rp, plot) ==
    LET hit == {i \in 1..Len(rp) : rp[i].plot = <<plot[1], plot[1]>>}
    IN  IF hit = {} THEN rp
        ELSE RemoveAt(rp, CHOOSE i \in hit : \A j \in hit : i <= j)

\* handle_plot_unload taking the oldest entry, whatever its plot.
handle_plot_unload_oldest(rp, plot) == IF rp = <<>> THEN rp ELSE Tail(rp)

\* MinecraftServer::handle_plot_unload
handle_plot_unload(rp, plot) ==
    LET hit == {i \in 1..Len(rp) : rp[i].plot = plot}
    IN  IF hit = {} THEN rp
        ELSE RemoveAt(rp, CHOOSE i \in hit : \A j \in hit : i <= j)

\* The always_running argument send_player_to_plot passes to load_and_run.
RespawnAlwaysRunning(plot) == FALSE

\* MinecraftServer::send_player_to_plot, as the next values of the variables it
\* writes; rx is the bus state after any broadcast of the same handler.
send_player_to_plot(player, new_entry, rx) ==
    LET plot == player.pos
        idx == EntryIndex(plot)
    IN  /\ online_players' =
               IF new_entry \/ online_players[player.uuid] # NoPlot
               THEN [online_players EXCEPT ![player.uuid] = plot]
               ELSE online_players
        /\ pending' = [pending EXCEPT ![player.id] = plot]
        /\ IF idx = 0
           THEN /\ \E w \in WorkerIds : FreeSlot(w)
                /\ LET w == NextSlot
                   IN  /\ pc' = [pc EXCEPT ![w] = "load"]
                       /\ plot_of' = [plot_of EXCEPT ![w] = plot]
                       /\ always_running' =
                              [always_running EXCEPT ![w] = RespawnAlwaysRunning(plot)]
                       /\ running' = [running EXCEPT ![w] = TRUE]
                       /\ players' = [players EXCEPT ![w] = <<>>]
                       /\ initial_player' = [initial_player EXCEPT ![w] = <<player>>]
                       /\ priv_inbox' = [priv_inbox EXCEPT ![w] = <<>>]
                       /\ bus_rx' = [rx EXCEPT ![w] = <<>>]
                       /\ running_plots' =
                              Append(running_plots, [plot |-> plot, tx |-> w])
           ELSE /\ priv_inbox' = PrivSend(priv_inbox, running_plots[idx].tx,
                                          Msg("PlayerEnterPlot", player))
                /\ bus_rx' = rx
                /\ UNCHANGED <<pc, plot_of, always_running, running, players,
                               initial_player, running_plots>>

\* MinecraftServer::handle_player_enter_play: a client finishes configuration,
\* its Player is loaded from its save file and PlayerJoined is sent.
EnterPlay(c, name, pos) ==
    /\ srv_pc = "run"
    /\ exists[c] = "new"
    /\ exists' = [exists EXCEPT ![c] = "live"]
    /\ inbox' = Append(inbox, Msg("PlayerJoined",
                   [id |-> c, uuid |-> generate_offline_uuid(name), pos |-> pos]))
    /\ UNCHANGED <<srv_pc, online_players, running_plots, whitelist,
                   whitelist_written, exit_code, plotVars, pending>>
    /\ UNCHANGED worldVars

\* The ctrl-c handler, or a /stop command, sends Message::Shutdown.
RequestShutdown ==
    /\ srv_pc = "run"
    /\ \A i \in 1..Len(inbox) : inbox[i].type # "Shutdown"
    /\ inbox' = Append(inbox, Msg("Shutdown", NoPlot))
    /\ UNCHANGED <<srv_pc, online_players, running_plots, whitelist,
                   whitelist_written, exit_code, plotVars, clientVars>>
    /\ UNCHANGED worldVars

\* The calls MinecraftServer::handle_message makes for a message, in order;
\* the variant broadcasts the join after the player is routed.
Call(fn, type, uuid) == [fn |-> fn, type |-> type, uuid |-> uuid]

handle_message_calls_routing_first(m) ==
    CASE m.type = "PlayerJoined" ->
             <<Call("send_player_to_plot", "new_entry", m.arg.uuid),
               Call("broadcast", "PlayerJoinedInfo", m.arg.uuid)>>
      [] m.type = "PlayerLeavePlot" ->
             <<Call("send_player_to_plot", "update_entry", m.arg.uuid)>>
      [] m.type = "PlayerLeft" ->
             <<Call("online_players.remove_entry", "", m.arg),
               Call("broadcast", "PlayerLeft", m.arg)>>
      [] m.type = "PlotUnload" -> <<Call("handle_plot_unload", "", <<>>)>>
      [] m.type = "Shutdown" -> <<Call("broadcast", "Shutdown", <<>>)>>

handle_message_calls(m) ==
    CASE m.type = "PlayerJoined" ->
             <<Call("broadcast", "PlayerJoinedInfo", m.arg.uuid),
               Call("send_player_to_plot", "new_entry", m.arg.uuid)>>
      [] m.type = "PlayerLeavePlot" ->
             <<Call("send_player_to_plot", "update_entry", m.arg.uuid)>>
      [] m.type = "PlayerLeft" ->
             <<Call("online_players.remove_entry", "", m.arg),
               Call("broadcast", "PlayerLeft", m.arg)>>
      [] m.type = "PlotUnload" -> <<Call("handle_plot_unload", "", <<>>)>>
      [] m.type = "Shutdown" -> <<Call("broadcast", "Shutdown", <<>>)>>

BroadcastsOf(calls) ==
    LET b == SelectSeq(calls, LAMBDA c : c.fn = "broadcast")
    IN  [i \in 1..Len(b) |-> [type |-> b[i].type, uuid |-> b[i].uuid]]

\* MinecraftServer::handle_message, as the next values of the routing variables
\* other than the inbox.
handle_message(m) ==
    CASE m.type = "PlayerJoined" ->
           /\ send_player_to_plot(m.arg, TRUE,
                  Broadcast(bus_rx, Msg("PlayerJoinedInfo", m.arg.uuid)))
           /\ UNCHANGED srv_pc
      [] m.type = "PlayerLeavePlot" ->
           /\ send_player_to_plot(m.arg, FALSE, bus_rx)
           /\ UNCHANGED srv_pc
      [] m.type = "PlayerLeft" ->
           /\ online_players' = [online_players EXCEPT ![m.arg] = NoPlot]
           /\ bus_rx' = Broadcast(bus_rx, Msg("PlayerLeft", m.arg))
           /\ UNCHANGED <<srv_pc, running_plots, pc, plot_of, always_running,
                          running, players, initial_player, priv_inbox, pending>>
      [] m.type = "PlotUnload" ->
           /\ running_plots' = handle_plot_unload(running_plots, m.arg)
           /\ UNCHANGED <<srv_pc, online_players, plotVars, pending>>
      [] m.type = "Shutdown" ->
           \* graceful_shutdown: the broadcast, then the wait loop
           /\ bus_rx' = Broadcast(bus_rx, Msg("Shutdown", NoPlot))
           /\ srv_pc' = "shutdown_outer"
           /\ UNCHANGED <<online_players, running_plots, pc, plot_of,
                          always_running, running, players, initial_player,
                          priv_inbox, pending>>

\* MinecraftServer::handle_message, on the message at the head of the inbox.
HandleMessage ==
    /\ srv_pc = "run"
    /\ inbox # <<>>
    /\ inbox' = Tail(inbox)
    /\ UNCHANGED <<whitelist, whitelist_written, exit_code, exists>>
    /\ handle_message(Head(inbox))
    /\ UNCHANGED worldVars

\* HandleMessage with its calls and its broadcasts written down.
HandleMessageCalls ==
    /\ srv_pc = "run"
    /\ inbox # <<>>
    /\ inbox' = Tail(inbox)
    /\ UNCHANGED <<whitelist, whitelist_written, exit_code, exists>>
    /\ handle_message(Head(inbox))
    /\ LET calls == handle_message_calls(Head(inbox))
       IN  /\ srv_op' = [message |-> Head(inbox), calls |-> calls]
           /\ srv_broadcasts' = srv_broadcasts \o BroadcastsOf(calls)
    /\ UNCHANGED <<poll_op, notCoordWorldVars>>

\* graceful_shutdown: `while !self.running_plots.is_empty()`, then the whitelist
\* write and process::exit(0).
ShutdownOuter ==
    /\ srv_pc = "shutdown_outer"
    /\ IF running_plots = <<>>
       THEN /\ whitelist_written' = whitelist
            /\ exit_code' = 0
            /\ srv_pc' = "exited"
       ELSE /\ srv_pc' = "shutdown_inner"
            /\ UNCHANGED <<whitelist_written, exit_code>>
    /\ UNCHANGED <<inbox, online_players, running_plots, whitelist, plotVars,
                   clientVars>>
    /\ UNCHANGED worldVars

\* graceful_shutdown: `while let Ok(message) = self.receiver.try_recv()`; only
\* PlotUnload is handled, every other message is dropped.
graceful_shutdown_poll ==
    /\ srv_pc = "shutdown_inner"
    /\ IF inbox = <<>>
       THEN /\ srv_pc' = "shutdown_outer"
            /\ UNCHANGED <<inbox, running_plots>>
       ELSE /\ inbox' = Tail(inbox)
            /\ running_plots' =
                   IF Head(inbox).type = "PlotUnload"
                   THEN handle_plot_unload(running_plots, Head(inbox).arg)
                   ELSE running_plots
            /\ UNCHANGED srv_pc
    /\ UNCHANGED <<online_players, whitelist, whitelist_written, exit_code,
                   plotVars, clientVars>>

ShutdownInner == graceful_shutdown_poll /\ UNCHANGED worldVars

\* thread::sleep(2 ms) is the last statement of the body of
\* `while let Ok(message)`: it runs when try_recv returned a message.
sleeps_after_poll(received) == received

\* ShutdownInner with the call of try_recv and the sleep written down.
ShutdownPoll ==
    /\ graceful_shutdown_poll
    /\ poll_op' = [polled |-> TRUE, slept |-> sleeps_after_poll(inbox # <<>>)]
    /\ UNCHANGED <<srv_op, srv_broadcasts, notCoordWorldVars>>

\* Nothing was handled, broadcast or polled when MinecraftServer::run enters
\* its loop.
NoMessage == Msg("", NoPlot)

CoordInit ==
    /\ srv_op = [message |-> NoMessage, calls |-> <<>>]
    /\ srv_broadcasts = <<>>
    /\ poll_op = [polled |-> FALSE, slept |-> FALSE]

\* ------------------------------------------------------- plot worker
send_player_away_to_spawn(plot, player) == [player EXCEPT !.pos = SpawnPlot]

\* Plot::send_player_away: to the centre of the spawn plot, or of plot (1,0)
\* when the plot itself is the spawn plot.
send_player_away(plot, player) ==
    [player EXCEPT !.pos = IF plot = SpawnPlot THEN <<1, 0>> ELSE SpawnPlot]

\* Plot::enter_plot: the player joins the end of the players list.
enter_plot(ps, player) == Append(ps, player)

\* Plot::leave_plot: the first player with that uuid leaves the list.
LeaveIndex(ps, uuid) ==
    CHOOSE i \in 1..Len(ps) :
        /\ ps[i].uuid = uuid
        /\ \A j \in 1..(i - 1) : ps[j].uuid # uuid

\* The idle test of Plot::update: last_player_time.elapsed().as_secs() > 600
\* and not always_running, reached only when players is empty.
as_secs(millis) == millis \div MillisPerSec
IdleExpired_always_running_too(elapsed, always) == as_secs(elapsed) > IdleLimitSecs
IdleExpired(elapsed, always) == as_secs(elapsed) > IdleLimitSecs /\ ~always

\* Plot::handle_messages: the broadcast bus is drained first; Shutdown kicks
\* every player, stops the worker and returns before the private inbox is read.
handle_messages(w) ==
    LET bus == bus_rx[w]
        stop == {i \in 1..Len(bus) : bus[i].type = "Shutdown"}
        priv == priv_inbox[w]
    IN  IF stop # {}
        THEN [players |-> <<>>, kicked |-> PlayerIds(players[w]),
              entered |-> {}, running |-> FALSE, always_running |-> FALSE,
              bus |-> SubSeq(bus, (CHOOSE i \in stop : \A j \in stop : i <= j) + 1,
                             Len(bus)),
              priv |-> priv]
        ELSE [players |-> players[w] \o [i \in 1..Len(priv) |-> priv[i].arg],
              kicked |-> {}, entered |-> MsgPlayerIds(priv),
              running |-> running[w], always_running |-> always_running[w],
              bus |-> <<>>, priv |-> <<>>]

\* Plot::remove_dc_players: the PlayerLeft messages, in list order, for the
\* players whose client.alive() is false (dc).
DcMessages(ps, dc) ==
    LET dead == SelectSeq(ps, LAMBDA p : p.id \in dc)
    IN  [i \in 1..Len(dead) |-> Msg("PlayerLeft", dead[i].uuid)]

\* Plot::remove_oob_players: uuids of the players outside the plot are
\* collected, then leave_plot(uuid) runs for each and the Player it returns is
\* sent to the coordinator.
RECURSIVE LeaveAll(_, _, _)
LeaveAll(ps, uuids, sent) ==
    IF uuids = <<>> THEN [players |-> ps, sent |-> sent]
    ELSE LET i == LeaveIndex(ps, Head(uuids))
         IN  LeaveAll(RemoveAt(ps, i), Tail(uuids),
                      Append(sent, Msg("PlayerLeavePlot", ps[i])))

remove_oob_players(ps, plot) ==
    LET outside == SelectSeq(ps, LAMBDA p : p.pos # plot)
    IN  LeaveAll(ps, [i \in 1..Len(outside) |-> outside[i].uuid], <<>>)

\* Plot::load inside the thread of load_and_run, then the start of Plot::run
\* (the initial player enters); on an error the initial player is sent away,
\* PlotUnload is sent and the thread panics; its receivers are gone.
Load(w, ok) ==
    /\ srv_pc # "exited"
    /\ pc[w] = "load"
    /\ IF ok
       THEN /\ pc' = [pc EXCEPT ![w] = "loop"]
            /\ players' = [players EXCEPT
                              ![w] = IF initial_player[w] = <<>> THEN <<>>
                                     ELSE enter_plot(<<>>, initial_player[w][1])]
            /\ UNCHANGED <<inbox, priv_inbox, bus_rx>>
       ELSE /\ pc' = [pc EXCEPT ![w] = "exited"]
            /\ inbox' = inbox
                   \o [i \in 1..Len(initial_player[w]) |->
                          Msg("PlayerLeavePlot",
                              send_player_away(plot_of[w], initial_player[w][i]))]
                   \o <<Msg("PlotUnload", plot_of[w])>>
            /\ priv_inbox' = [priv_inbox EXCEPT ![w] = <<>>]
            /\ bus_rx' = [bus_rx EXCEPT ![w] = <<>>]
            /\ UNCHANGED players
    /\ initial_player' = [initial_player EXCEPT ![w] = <<>>]
    /\ pending' = [c \in Conns |->
                      IF c \in PlayerIds(initial_player[w]) THEN NoPlot ELSE pending[c]]
    /\ UNCHANGED <<srv_pc, online_players, running_plots, whitelist,
                   whitelist_written, exit_code, plot_of, always_running, running,
                   exists>>
    /\ UNCHANGED worldVars

\* One iteration of the loop of Plot::run, i.e. Plot::update and the loop test.
\* elapsed is last_player_time.elapsed() in ms; the player at index mv (0: none)
\* moves or teleports to a position in plot dest while its packets are handled;
\* dc are the players whose connection remove_dc_players finds closed.
Update(w, elapsed, mv, dest, dc) ==
    /\ srv_pc # "exited"
    /\ pc[w] = "loop"
    /\ LET hm == handle_messages(w)
           stays == IF hm.players # <<>> THEN hm.running
                    ELSE hm.running /\ ~IdleExpired(elapsed, hm.always_running)
           moved == IF mv = 0 THEN hm.players
                    ELSE [hm.players EXCEPT ![mv].pos = dest]
           left == DcMessages(moved, dc)
           oob == remove_oob_players(SelectSeq(moved, LAMBDA p : p.id \notin dc),
                                     plot_of[w])
           gone == hm.kicked \cup dc
       IN  /\ mv \in 0..Len(hm.players)
           /\ dc \subseteq PlayerIds(hm.players)
           /\ (mv = 0 => dest = SpawnPlot)
           /\ (hm.players # <<>> => elapsed = 0)
           /\ players' = [players EXCEPT ![w] = oob.players]
           /\ priv_inbox' = [priv_inbox EXCEPT ![w] = hm.priv]
           /\ bus_rx' = [bus_rx EXCEPT ![w] = hm.bus]
           /\ running' = [running EXCEPT ![w] = stays]
           /\ always_running' = [always_running EXCEPT ![w] = hm.always_running]
           /\ inbox' = inbox \o left \o oob.sent
           /\ pc' = [pc EXCEPT ![w] = IF stays THEN "loop" ELSE "drop"]
           /\ exists' = [c \in Conns |-> IF c \in gone THEN "gone" ELSE exists[c]]
           /\ pending' = [c \in Conns |-> IF c \in hm.entered THEN NoPlot ELSE pending[c]]
    /\ UNCHANGED <<srv_pc, online_players, running_plots, whitelist,
                   whitelist_written, exit_code, plot_of, initial_player>>
    /\ UNCHANGED worldVars

\* Drop for Plot, first half: players still in the list are sent away and
\* handed back, then PlotUnload is sent.
Drop(w) ==
    /\ srv_pc # "exited"
    /\ pc[w] = "drop"
    /\ LET away == [i \in 1..Len(players[w]) |->
                       send_player_away(plot_of[w], players[w][i])]
           out == LeaveAll(away, [i \in 1..Len(away) |-> away[i].uuid], <<>>)
       IN  inbox' = inbox \o out.sent \o <<Msg("PlotUnload", plot_of[w])>>
    /\ players' = [players EXCEPT ![w] = <<>>]
    /\ pc' = [pc EXCEPT ![w] = "final_save"]
    /\ UNCHANGED <<srv_pc, online_players, running_plots, whitelist,
                   whitelist_written, exit_code, plot_of, always_running, running,
                   initial_player, priv_inbox, bus_rx, clientVars>>
    /\ UNCHANGED worldVars

\* Drop for Plot, second half: reset_backend, compress, save; then the fields
\* are dropped, and with the Receiver every PrivMessage still queued in it.
FinalSave(w) ==
    /\ srv_pc # "exited"
    /\ pc[w] = "final_save"
    /\ pc' = [pc EXCEPT ![w] = "exited"]
    /\ priv_inbox' = [priv_inbox EXCEPT ![w] = <<>>]
    /\ bus_rx' = [bus_rx EXCEPT ![w] = <<>>]
    /\ UNCHANGED <<srvVars, plot_of, always_running, running, players,
                   initial_player, clientVars>>
    /\ UNCHANGED worldVars

\* A panic inside the loop of Plot::run unwinds into Drop for Plot. When it
\* happens while the thread holds the guard of Plot.world, the std Mutex is
\* poisoned, the first self.world.lock().unwrap() of drop panics during the
\* unwinding and the process aborts (exit status 134, SIGABRT); otherwise drop
\* runs as after the loop.
Panic(w, holding_world_lock) ==
    /\ srv_pc # "exited"
    /\ pc[w] = "loop"
    /\ IF holding_world_lock
       THEN /\ srv_pc' = "exited"
            /\ exit_code' = 134
            /\ UNCHANGED pc
       ELSE /\ pc' = [pc EXCEPT ![w] = "drop"]
            /\ UNCHANGED <<srv_pc, exit_code>>
    /\ UNCHANGED <<inbox, online_players, running_plots, whitelist, whitelist_written,
                   plot_of, always_running, running, players, initial_player,
                   priv_inbox, bus_rx, clientVars>>
    /\ UNCHANGED worldVars

\* The thread of a worker that returned or panicked is gone; once the
\* coordinator has dropped the Sender of its private channel with its
\* running_plots entry, the slot numbers the next thread that load_and_run
\* spawns.
Reap(w) ==
    /\ srv_pc # "exited"
    /\ pc[w] = "exited"
    /\ \A i \in 1..Len(running_plots) : running_plots[i].tx # w
    /\ pc' = [pc EXCEPT ![w] = "none"]
    /\ UNCHANGED <<srvVars, plot_of, always_running, running, players,
                   initial_player, priv_inbox, bus_rx, clientVars>>
    /\ UNCHANGED worldVars

\* ------------------------------------------ idle eviction against the clock
\* The instants, in ms since last_player_time, at which the loop is observed:
\* every half second from 0 and from the limit on.
IdleInstants ==
    {base + k * (MillisPerSec \div 2) :
        base \in {0, IdleLimitSecs * MillisPerSec}, k \in 0..MaxHalfSeconds}

\* Plot::from_data: last_player_time = Instant::now(), running = true.
IdleInit(always) ==
    /\ idle = [elapsed |-> 0, players |-> 0, always_running |-> always, running |-> TRUE]
    /\ idle_checked = -1

\* Time passes between two iterations of the loop of Plot::run.
TimePasses(t) ==
    /\ idle.running
    /\ t > idle.elapsed
    /\ idle' = [idle EXCEPT !.elapsed = t]
    /\ UNCHANGED <<idle_checked, routeVars, tickVars, backendVars, extraVars>>

\* One iteration of Plot::update as far as the clock is concerned: enter
\* players arrive in handle_messages, players present reset last_player_time,
\* an empty plot runs the idle check, leave players are removed at the end.
IdleUpdate(enter, leave) ==
    /\ idle.running
    /\ LET n == idle.players + enter
           expired == n = 0 /\ IdleExpired(idle.elapsed, idle.always_running)
       IN  /\ n <= NumConns
           /\ leave <= n
           /\ idle' = [idle EXCEPT !.players = n - leave,
                                   !.elapsed = IF n > 0 THEN 0 ELSE @,
                                   !.running = ~expired]
           /\ idle_checked' = IF n = 0 THEN idle.elapsed ELSE -1
    /\ UNCHANGED <<routeVars, tickVars, backendVars, extraVars>>

\* ------------------------------------------------ pending ticks, Plot::tick
Positions == {"p", "q"}
Priorities == {"High", "Normal", "Low"}
Delays == 0..MaxDelay
None == <<>>
Some(i) == <<i>>

\* The derived Ord of TickPriority: High < Normal < Low.
Rank(priority) ==
    CASE priority = "High" -> 0
      [] priority = "Normal" -> 1
      [] priority = "Low" -> 2

TickEntry(pos, ticks_left, tick_priority, id) ==
    [pos |-> pos, ticks_left |-> ticks_left, tick_priority |-> tick_priority, id |-> id]

\* PlotWorld::schedule_tick
schedule_tick(q, pos, delay, priority, id) ==
    Append(q, TickEntry(pos, delay, priority, id))

\* A comparison of entries that looks at ticks_left only.
TicksOnlyLeq(a, b) == a.ticks_left <= b.ticks_left

\* The order of the sort key (e.ticks_left, e.tick_priority).
KeyLeq(a, b) ==
    \/ a.ticks_left < b.ticks_left
    \/ a.ticks_left = b.ticks_left /\ Rank(a.tick_priority) <= Rank(b.tick_priority)

\* An insertion that puts e in front of the entries with an equal key.
InsertBeforeTies(sorted, e) ==
    LET k == Cardinality({i \in 1..Len(sorted) : ~KeyLeq(e, sorted[i])})
    IN  SubSeq(sorted, 1, k) \o <<e>> \o SubSeq(sorted, k + 1, Len(sorted))

\* sort_by_key is stable: e goes behind the entries with an equal key that
\* precede it.
Insert(sorted, e) ==
    LET k == Cardinality({i \in 1..Len(sorted) : KeyLeq(sorted[i], e)})
    IN  SubSeq(sorted, 1, k) \o <<e>> \o SubSeq(sorted, k + 1, Len(sorted))

RECURSIVE sort_by_key(_)
sort_by_key(s) ==
    IF s = <<>> THEN <<>>
    ELSE Insert(sort_by_key(SubSeq(s, 1, Len(s) - 1)), s[Len(s)])

saturating_sub(n, k) == IF n > k THEN n - k ELSE 0

Decrement(q) ==
    [i \in 1..Len(q) |-> [q[i] EXCEPT !.ticks_left = saturating_sub(@, 1)]]

\* The loop that removes the first entry while its ticks_left is 0 and hands it
\* to mchprs_redstone::tick; the cbk-th of these calls schedules the entry cbe.
RECURSIVE FireLoop(_, _, _, _)
FireLoop(q, fired, cbk, cbe) ==
    IF q # <<>> /\ Head(q).ticks_left = 0
    THEN LET rest == Tail(q)
             after == IF Len(fired) + 1 = cbk
                      THEN schedule_tick(rest, cbe.pos, cbe.ticks_left,
                                         cbe.tick_priority, cbe.id)
                      ELSE rest
         IN  FireLoop(after, Append(fired, Head(q)), cbk, cbe)
    ELSE [queue |-> q, fired |-> fired]

\* Plot::tick without an active backend
tick(q, cbk, cbe) == FireLoop(Decrement(sort_by_key(q)), <<>>, cbk, cbe)

TickInit ==
    /\ to_be_ticked = <<>>
    /\ next_id = 1
    /\ pre_tick = <<>>
    /\ last_fired = <<>>

\* The state right after reset_backend lasts until the next operation.
Settle(l) == IF l = "reset" THEN "idle" ELSE l

\* A block update of the interpreter calls schedule_tick.
ScheduleTick(pos, delay, priority) ==
    /\ active_backend = None
    /\ next_id <= MaxScheduled
    /\ to_be_ticked' = schedule_tick(to_be_ticked, pos, delay, priority, next_id)
    /\ next_id' = next_id + 1
    /\ UNCHANGED <<pre_tick, last_fired, routeVars, idleVars, backendVars, extraVars>>

LogEntry(delay, at, in_tick) ==
    [delay |-> delay, at |-> at, in_tick |-> in_tick, fired |-> <<>>]

\* ScheduleTick between two ticks, with the tick count written down.
ScheduleTickBetweenTicks(pos, delay, priority) ==
    /\ active_backend = None
    /\ next_id <= MaxScheduled
    /\ to_be_ticked' = schedule_tick(to_be_ticked, pos, delay, priority, next_id)
    /\ next_id' = next_id + 1
    /\ tick_log' = Append(tick_log, LogEntry(delay, tick_no, FALSE))
    /\ UNCHANGED <<pre_tick, last_fired, routeVars, idleVars, backendVars, tick_no,
                   notDelayExtraVars>>

\* Plot::tick: with an active backend the tick is the backend's; otherwise the
\* interpreter's, during which the cbk-th fired entry (0: none) schedules a tick.
Tick(cbk, pos, delay, priority) ==
    /\ LET r == tick(to_be_ticked, cbk, TickEntry(pos, delay, priority, next_id))
       IN  /\ cbk = 0 => pos = "p" /\ delay = 0 /\ priority = "High"
           /\ IF active_backend # None
              THEN /\ cbk = 0
                   /\ UNCHANGED <<tickVars, world_state>>
              ELSE /\ cbk <= Len(r.fired)
                   /\ cbk > 0 => next_id <= MaxScheduled
                   /\ to_be_ticked' = r.queue
                   /\ next_id' = IF cbk > 0 THEN next_id + 1 ELSE next_id
                   /\ pre_tick' = to_be_ticked
                   /\ last_fired' = r.fired
                   /\ world_state' = IF r.fired = <<>> THEN world_state ELSE None
    /\ lifecycle' = Settle(lifecycle)
    /\ UNCHANGED <<active_backend, backends, builders, activated, starts>>
    /\ UNCHANGED <<routeVars, idleVars, extraVars>>

\* An interpreter Tick with the tick counted and the entries it fired written
\* down.
CountedTick(cbk, pos, delay, priority) ==
    LET r == tick(to_be_ticked, cbk, TickEntry(pos, delay, priority, next_id))
        scheduled == IF cbk > 0 THEN Append(tick_log, LogEntry(delay, tick_no + 1, TRUE))
                     ELSE tick_log
        times(id) == Cardinality({k \in 1..Len(r.fired) : r.fired[k].id = id})
    IN  /\ active_backend = None
        /\ tick_no < MaxTicks
        /\ cbk = 0 => pos = "p" /\ delay = 0 /\ priority = "High"
        /\ cbk <= Len(r.fired)
        /\ cbk > 0 => next_id <= MaxScheduled
        /\ to_be_ticked' = r.queue
        /\ next_id' = IF cbk > 0 THEN next_id + 1 ELSE next_id
        /\ pre_tick' = to_be_ticked
        /\ last_fired' = r.fired
        /\ world_state' = IF r.fired = <<>> THEN world_state ELSE None
        /\ lifecycle' = Settle(lifecycle)
        /\ tick_no' = tick_no + 1
        /\ tick_log' = [id \in 1..Len(scheduled) |->
                           [scheduled[id] EXCEPT
                               !.fired = @ \o [k \in 1..times(id) |-> tick_no + 1]]]
        /\ UNCHANGED <<active_backend, backends, builders, activated, starts>>
        /\ UNCHANGED <<routeVars, idleVars, notDelayExtraVars>>

\* No tick has run and nothing was scheduled.
DelayInit ==
    /\ tick_no = 0
    /\ tick_log = <<>>

\* --------------------------------------------------------- backend lifecycle
BackendInit ==
    /\ active_backend = None
    /\ backends = <<>>
    /\ builders = {}
    /\ activated = {}
    /\ world_state = None
    /\ lifecycle = "idle"
    /\ starts = 0

\* Plot::start_backend: to_be_ticked is drained into the builder thread.
StartBackend(io_only) ==
    /\ starts < MaxStarts
    /\ builders' = builders \cup
           {[start_no |-> starts + 1, io_only |-> io_only, ticks |-> to_be_ticked]}
    /\ to_be_ticked' = <<>>
    /\ starts' = starts + 1
    /\ lifecycle' = "started"
    /\ UNCHANGED <<next_id, pre_tick, last_fired, active_backend, backends, activated,
                   world_state, routeVars, idleVars, extraVars>>

\* The end of the builder thread: the new backend is pushed.
BuilderFinish(b) ==
    /\ b \in builders
    /\ backends' = Append(backends, b)
    /\ builders' = builders \ {b}
    /\ lifecycle' = Settle(lifecycle)
    /\ UNCHANGED <<tickVars, active_backend, activated, world_state, starts,
                   routeVars, idleVars, extraVars>>

\* The completion of backend i is handled: it becomes the active backend.
Activate(i) ==
    /\ i \in 1..Len(backends)
    /\ i \notin activated
    /\ active_backend' = Some(i)
    /\ activated' = activated \cup {i}
    /\ lifecycle' = Settle(lifecycle)
    /\ UNCHANGED <<tickVars, backends, builders, world_state, starts, routeVars, idleVars, extraVars>>

\* Plot::reset_backend
ResetBackend ==
    /\ IF active_backend # None
       THEN /\ world_state' = Some(backends[active_backend[1]].start_no)
            /\ active_backend' = None
       ELSE UNCHANGED <<world_state, active_backend>>
    /\ lifecycle' = IF lifecycle = "started" THEN "reset" ELSE Settle(lifecycle)
    /\ UNCHANGED <<tickVars, backends, builders, activated, starts, routeVars, idleVars, extraVars>>

is_io_only_when_active(ab, bks) == ab # None
is_io_only_never(ab, bks) == FALSE

\* Plot::is_io_only, and the same test in the block handlers.
is_io_only(ab, bks) == ab # None /\ bks[ab[1]].io_only

NoInteract ==
    [kind |-> "none", active |-> FALSE, io_only |-> FALSE, error |-> "", resync |-> FALSE,
     destroyed |-> FALSE, active_after |-> FALSE, world_kept |-> TRUE]

\* A block interaction of a player: Plot::handle_use_item_impl on a lever or
\* button ("lever") or on another block ("item"), Plot::handle_player_digging
\* ("dig"). sched: the interpreter's block update schedules a tick.
Interact(kind, sched) ==
    /\ LET active == active_backend # None
           io_only == is_io_only(active_backend, backends)
           delegated == active /\ kind = "lever"
           rejected == active /\ kind # "lever" /\ io_only
       IN  /\ IF delegated \/ rejected
              THEN /\ ~sched
                   /\ world_state' = IF delegated THEN None ELSE world_state
                   /\ UNCHANGED <<to_be_ticked, next_id, active_backend>>
              ELSE /\ sched => next_id <= MaxScheduled
                   /\ active_backend' = None
                   /\ world_state' = None
                   /\ to_be_ticked' =
                          IF sched
                          THEN schedule_tick(to_be_ticked, "p", 1, "Normal", next_id)
                          ELSE to_be_ticked
                   /\ next_id' = IF sched THEN next_id + 1 ELSE next_id
           /\ interact_op' =
                  IF kind # "dig" THEN NoInteract
                  ELSE [kind |-> "dig", active |-> active,
                        io_only |-> active /\ backends[active_backend[1]].io_only,
                        error |-> IF rejected THEN "ERROR_IO_ONLY" ELSE "",
                        resync |-> rejected,
                        destroyed |-> ~rejected,
                        active_after |-> active_backend' # None,
                        world_kept |-> /\ world_state' = world_state
                                       /\ to_be_ticked' = to_be_ticked]
    /\ lifecycle' = Settle(lifecycle)
    /\ UNCHANGED <<pre_tick, last_fired, backends, builders, activated, starts,
                   routeVars, idleVars, notInteractVars>>

\* The calls of the delegated branch of handle_use_item_impl, in order.
delegate_use_block_flushing_world_first == <<"on_use_block", "flush_block_changes", "flush">>

delegate_use_block == <<"on_use_block", "flush", "flush_block_changes">>

UseGates == {"ok", "out_of_bounds", "wand", "no_permission"}

\* Plot::handle_use_item_impl: the calls it makes, in order, and the error
\* message it sends. gate: the first of the bounds, WorldEdit wand and
\* permission checks that returns early, "ok" when none does;
\* lever_or_button: the block clicked; has_item: item_in_hand is Some.
handle_use_item_impl(ab, bks, gate, lever_or_button, crouching, has_item) ==
    IF gate = "out_of_bounds" THEN [calls |-> <<"send_system_message", "cancel">>, error |-> ""]
    ELSE IF gate = "wand" THEN [calls |-> <<"worldedit_set_second_position", "cancel">>, error |-> ""]
    ELSE IF gate = "no_permission"
    THEN [calls |-> <<"send_no_permission_message", "cancel">>, error |-> ""]
    ELSE IF ab # None /\ lever_or_button /\ ~crouching
    THEN [calls |-> delegate_use_block, error |-> ""]
    ELSE IF ab # None /\ is_io_only(ab, bks)
    THEN [calls |-> <<"send_error_message", "cancel">>, error |-> "ERROR_IO_ONLY"]
    ELSE LET reset == IF ab # None THEN <<"reset_backend">> ELSE <<>>
         IN  IF has_item
             THEN [calls |-> reset \o <<"use_item_on_block", "flush_block_changes">>,
                   error |-> ""]
             ELSE IF ~crouching
             THEN [calls |-> reset \o <<"on_use", "flush_block_changes">>, error |-> ""]
             ELSE [calls |-> reset, error |-> ""]

Calls(r, names) == \E i \in 1..Len(r.calls) : r.calls[i] \in names

\* A use-item-on-block packet of a player. sched: the interpreter's
\* interaction code schedules a tick.
UseItemOn(gate, lever_or_button, crouching, has_item, sched) ==
    /\ gate = "wand" => has_item
    /\ LET r == handle_use_item_impl(active_backend, backends, gate, lever_or_button,
                                     crouching, has_item)
           reset == Calls(r, {"reset_backend"})
           interpreted == Calls(r, {"use_item_on_block", "on_use"})
           delegated == Calls(r, {"on_use_block"})
       IN  /\ sched => interpreted /\ next_id <= MaxScheduled
           /\ active_backend' = IF reset THEN None ELSE active_backend
           /\ world_state' = IF interpreted \/ delegated THEN None
                             ELSE IF reset THEN Some(backends[active_backend[1]].start_no)
                             ELSE world_state
           /\ to_be_ticked' = IF sched
                              THEN schedule_tick(to_be_ticked, "p", 1, "Normal", next_id)
                              ELSE to_be_ticked
           /\ next_id' = IF sched THEN next_id + 1 ELSE next_id
           /\ lifecycle' = IF reset /\ ~interpreted /\ lifecycle = "started" THEN "reset"
                           ELSE Settle(lifecycle)
           /\ interact_op' =
                  [kind |-> "use", gate |-> gate, lever_or_button |-> lever_or_button,
                   crouching |-> crouching, has_item |-> has_item,
                   io_only |-> active_backend # None /\ backends[active_backend[1]].io_only,
                   calls |-> r.calls, error |-> r.error,
                   backend_before |-> active_backend, backend_after |-> active_backend',
                   world_kept |-> /\ world_state' = world_state
                                  /\ to_be_ticked' = to_be_ticked]
    /\ UNCHANGED <<pre_tick, last_fired, backends, builders, activated, starts,
                   routeVars, idleVars, notInteractVars>>

\* ---------------------------------------------- PlotWorld block storage
BlockIds == 0..MaxBlockId
Sinks == 1..NumSinks
PlotSamples == {<<0, 0>>, <<1, 0>>, <<-1, 1>>}

\* Offsets from the plot's minimum corner: three blocks inside the plot, two
\* of them in one row of chunks, and blocks past each face of the plot.
BlockOffsets ==
    {<<0, 0, 0>>, <<0, 0, 16>>, <<31, 0, 0>>,
     <<-1, 0, 0>>, <<-1 - PLOT_BLOCK_WIDTH, 0, 0>>, <<PLOT_BLOCK_WIDTH, 0, 0>>,
     <<0, 0, PLOT_BLOCK_WIDTH>>, <<0, -1, 0>>, <<0, PLOT_BLOCK_HEIGHT, 0>>}

BlockSamples(wxz) ==
    {<<wxz[1] * PLOT_BLOCK_WIDTH + o[1], o[2], wxz[2] * PLOT_BLOCK_WIDTH + o[3]>> :
         o \in BlockOffsets}

\* i32 >> 4 is an arithmetic shift, i32 & 0xF keeps the low four bits of the
\* two's complement.
shr4(n) == n \div 16
and0xF(n) == n % 16
unsigned_abs(n) == IF n < 0 THEN -n ELSE n

get_corners(wxz) ==
    [min |-> <<wxz[1] * PLOT_BLOCK_WIDTH, 0, wxz[2] * PLOT_BLOCK_WIDTH>>,
     max |-> <<(wxz[1] + 1) * PLOT_BLOCK_WIDTH - 1, PLOT_BLOCK_HEIGHT - 1,
               (wxz[2] + 1) * PLOT_BLOCK_WIDTH - 1>>]

get_chunk_index_ignoring_z(wxz, block_x, block_z) ==
    LET chunk_x == shr4(block_x - wxz[1] * PLOT_BLOCK_WIDTH)
        chunk_z == shr4(block_z - wxz[2] * PLOT_BLOCK_WIDTH)
    IN  IF chunk_x >= PLOT_WIDTH \/ chunk_z >= PLOT_WIDTH
        THEN None
        ELSE Some(unsigned_abs(chunk_x * (2 ^ PLOT_SCALE)))

get_chunk_index_for_block(wxz, block_x, block_z) ==
    LET chunk_x == shr4(block_x - wxz[1] * PLOT_BLOCK_WIDTH)
        chunk_z == shr4(block_z - wxz[2] * PLOT_BLOCK_WIDTH)
    IN  IF chunk_x >= PLOT_WIDTH \/ chunk_z >= PLOT_WIDTH
        THEN None
        ELSE Some(unsigned_abs(chunk_x * (2 ^ PLOT_SCALE) + chunk_z))

\* Chunk: a cell that was never written, or whose y lies in no section, is air.
EmptyChunks == [c \in {} |-> 0]
chunk_get_block(ch, cell) == IF cell \in DOMAIN ch THEN ch[cell] ELSE 0
chunk_set_block(ch, cell, block) ==
    [c \in (DOMAIN ch \cup {cell}) \ (IF block = 0 THEN {cell} ELSE {}) |->
        IF c = cell THEN block ELSE ch[c]]

set_block_raw(wxz, ch, pos, block) ==
    LET idx == get_chunk_index_for_block(wxz, pos[1], pos[3])
        cell == <<idx[1], and0xF(pos[1]), pos[2], and0xF(pos[3])>>
        unchanged == [panic |-> FALSE, ret |-> FALSE, chunks |-> ch, dirty |-> {}]
    IN  IF idx = None THEN unchanged
        ELSE IF pos[2] >= PLOT_BLOCK_HEIGHT \/ pos[2] < 0 THEN unchanged
        ELSE IF idx[1] >= NUM_CHUNKS THEN [unchanged EXCEPT !.panic = TRUE]
        ELSE IF chunk_get_block(ch, cell) = block THEN unchanged
        ELSE [panic |-> FALSE, ret |-> TRUE,
              chunks |-> chunk_set_block(ch, cell, block), dirty |-> {cell}]

get_block_raw(wxz, ch, pos) ==
    LET idx == get_chunk_index_for_block(wxz, pos[1], pos[3])
        cell == <<idx[1], and0xF(pos[1]), pos[2], and0xF(pos[3])>>
    IN  IF idx = None THEN [panic |-> FALSE, ret |-> 0]
        ELSE IF idx[1] >= NUM_CHUNKS THEN [panic |-> TRUE, ret |-> 0]
        ELSE [panic |-> FALSE, ret |-> chunk_get_block(ch, cell)]

\* A client applies a multi-block packet to the chunks it holds.
ApplyPackets(view, packets) ==
    LET cells == {p[1] : p \in packets}
        id(c) == (CHOOSE p \in packets : p[1] = c)[2]
    IN  [c \in {d \in DOMAIN view \cup cells : d \in cells => id(d) # 0} |->
            IF c \in cells THEN id(c) ELSE view[c]]

flush_keeping_dirty(ch, dirty, views) ==
    LET packets == {<<c, chunk_get_block(ch, c)>> : c \in dirty}
    IN  [packets |-> packets,
         views |-> [s \in DOMAIN views |-> ApplyPackets(views[s], packets)],
         dirty |-> dirty]

flush_block_changes(ch, dirty, views) ==
    LET packets == {<<c, chunk_get_block(ch, c)>> : c \in dirty}
    IN  [packets |-> packets,
         views |-> [s \in DOMAIN views |-> ApplyPackets(views[s], packets)],
         dirty |-> {}]

InsidePlot(wxz, pos) ==
    LET c == get_corners(wxz)
    IN  \A i \in 1..3 : c.min[i] <= pos[i] /\ pos[i] <= c.max[i]

BlockInit(wxz) ==
    /\ world_xz = wxz
    /\ chunks = EmptyChunks
    /\ multi_blocks = {}
    /\ client_view = [s \in Sinks |-> EmptyChunks]
    /\ block_op = [op |-> "none", pos |-> <<>>, block |-> 0, ret |-> 0, prev |-> 0,
                   packets |-> {}, again |-> FALSE]
    /\ last_set = [p \in {q \in BlockSamples(world_xz) : InsidePlot(world_xz, q)} |-> 0]
    /\ oob_used = FALSE
    /\ world_panicked = FALSE

SetBlockRaw(pos, block) ==
    LET r == set_block_raw(world_xz, chunks, pos, block)
        inside == InsidePlot(world_xz, pos)
    IN  /\ ~world_panicked
        /\ world_panicked' = r.panic
        /\ chunks' = r.chunks
        /\ multi_blocks' = multi_blocks \cup r.dirty
        /\ block_op' = [op |-> "set", pos |-> pos, block |-> block,
                        ret |-> IF r.ret THEN 1 ELSE 0,
                        prev |-> IF inside THEN last_set[pos] ELSE 0,
                        packets |-> {}, again |-> FALSE]
        /\ last_set' = IF inside THEN [last_set EXCEPT ![pos] = block] ELSE last_set
        /\ oob_used' = (oob_used \/ ~inside)
        /\ UNCHANGED <<world_xz, client_view>>
        /\ UNCHANGED notBlockVars

GetBlockRaw(pos) ==
    LET r == get_block_raw(world_xz, chunks, pos)
    IN  /\ ~world_panicked
        /\ world_panicked' = r.panic
        /\ block_op' = [op |-> "get", pos |-> pos, block |-> 0, ret |-> r.ret,
                        prev |-> 0, packets |-> {}, again |-> FALSE]
        /\ UNCHANGED <<world_xz, chunks, multi_blocks, client_view, last_set, oob_used>>
        /\ UNCHANGED notBlockVars

FlushBlockChanges ==
    LET r == flush_block_changes(chunks, multi_blocks, client_view)
    IN  /\ ~world_panicked
        /\ client_view' = r.views
        /\ multi_blocks' = r.dirty
        /\ block_op' = [op |-> "flush", pos |-> <<>>, block |-> 0, ret |-> 0, prev |-> 0,
                        packets |-> r.packets, again |-> block_op.op = "flush"]
        /\ UNCHANGED <<world_xz, chunks, last_set, oob_used, world_panicked>>
        /\ UNCHANGED notBlockVars

\* ------------------------------------------------- chunks sent to a player
ViewDistances == 1..MaxViewDistance

\* Chunk offsets from the plot's minimum corner, on both sides of both edges
\* of the plot along x and of the lower edge along z.
ChunkSamples(wxz) ==
    {<<wxz[1] * PLOT_WIDTH + dx, wxz[2] * PLOT_WIDTH + dz>> :
         dx \in {-1, 0, 1, PLOT_WIDTH - 1, PLOT_WIDTH}, dz \in {-1, 0}}

\* i32 >> PLOT_SCALE is an arithmetic shift.
shrScale(n) == n \div (2 ^ PLOT_SCALE)
TruncDiv(n, d) == IF n < 0 THEN -((-n) \div d) ELSE n \div d

chunk_in_plot_bounds_truncating(plot_x, plot_z, chunk_x, chunk_z) ==
    plot_x = TruncDiv(chunk_x, PLOT_WIDTH) /\ plot_z = TruncDiv(chunk_z, PLOT_WIDTH)

chunk_in_plot_bounds(plot_x, plot_z, chunk_x, chunk_z) ==
    plot_x = shrScale(chunk_x) /\ plot_z = shrScale(chunk_z)

get_chunk_index_for_chunk(wxz, chunk_x, chunk_z) ==
    LET local_x == chunk_x - wxz[1] * PLOT_WIDTH
        local_z == chunk_z - wxz[2] * PLOT_WIDTH
    IN  unsigned_abs(local_x * PLOT_WIDTH + local_z)

get_chunk_distance_taxicab(x1, z1, x2, z2) ==
    unsigned_abs(x1 - x2) + unsigned_abs(z1 - z2)

get_chunk_distance(x1, z1, x2, z2) ==
    LET x == unsigned_abs(x1 - x2)
        z == unsigned_abs(z1 - z2)
    IN  IF x >= z THEN x ELSE z

\* The packets of one call, in the order they are sent; a chunk index past the
\* chunk array makes the call panic.
set_chunk_loaded_at_player(wxz, chunk_x, chunk_z, was_loaded, should_be_loaded) ==
    IF was_loaded \/ ~should_be_loaded THEN <<>>
    ELSE IF ~chunk_in_plot_bounds(wxz[1], wxz[2], chunk_x, chunk_z)
    THEN <<[kind |-> "empty", x |-> chunk_x, z |-> chunk_z, index |-> 0]>>
    ELSE LET index == get_chunk_index_for_chunk(wxz, chunk_x, chunk_z)
         IN  <<[kind |-> IF index < NUM_CHUNKS THEN "chunk" ELSE "panic",
                x |-> chunk_x, z |-> chunk_z, index |-> index]>>

\* for x in nx..=px { for z in nz..=pz { .. } }
Grid(nx, px, nz, pz) ==
    LET h == pz - nz + 1
    IN  [i \in 1..((px - nx + 1) * h) |-> <<nx + ((i - 1) \div h), nz + ((i - 1) % h)>>]

RECURSIVE Concat(_)
Concat(ss) == IF ss = <<>> THEN <<>> ELSE Head(ss) \o Concat(Tail(ss))

Min(a, b) == IF a <= b THEN a ELSE b
Max(a, b) == IF a >= b THEN a ELSE b

update_view_pos_for_player(wxz, vd, last, cur, force_load) ==
    LET center == <<[kind |-> "center", x |-> cur[1], z |-> cur[2], index |-> 0]>>
        near == /\ unsigned_abs(last[1] - cur[1]) <= vd * 2
                /\ unsigned_abs(last[2] - cur[2]) <= vd * 2
        both == Grid(Min(cur[1], last[1]) - vd, Max(cur[1], last[1]) + vd,
                     Min(cur[2], last[2]) - vd, Max(cur[2], last[2]) + vd)
        old == Grid(last[1] - vd, last[1] + vd, last[2] - vd, last[2] + vd)
        new == Grid(cur[1] - vd, cur[1] + vd, cur[2] - vd, cur[2] + vd)
    IN  IF near /\ ~force_load
        THEN center \o Concat([i \in DOMAIN both |->
                 set_chunk_loaded_at_player(wxz, both[i][1], both[i][2],
                     get_chunk_distance(both[i][1], both[i][2], last[1], last[2]) <= vd,
                     get_chunk_distance(both[i][1], both[i][2], cur[1], cur[2]) <= vd)])
        ELSE center
             \o Concat([i \in DOMAIN old |->
                    set_chunk_loaded_at_player(wxz, old[i][1], old[i][2], TRUE, FALSE)])
             \o Concat([i \in DOMAIN new |->
                    set_chunk_loaded_at_player(wxz, new[i][1], new[i][2], FALSE, TRUE)])

ViewInit(wxz, vd) ==
    /\ view_distance = vd
    /\ last_chunk = <<wxz[1] * PLOT_WIDTH, wxz[2] * PLOT_WIDTH>>
    /\ view_op = [last |-> <<>>, cur |-> <<>>, force_load |-> FALSE, packets |-> <<>>]

\* The player has moved to chunk cur when the view position is updated.
UpdateViewPos(cur, force_load) ==
    /\ view_op' = [last |-> last_chunk, cur |-> cur, force_load |-> force_load,
                   packets |-> update_view_pos_for_player(world_xz, view_distance,
                                                          last_chunk, cur, force_load)]
    /\ last_chunk' = cur
    /\ UNCHANGED view_distance
    /\ UNCHANGED notViewVars

\* ------------------------------------------------------- pressure plates
\* Blocks 1..NumPlates hold a stone pressure plate, block 0 holds none.
PlateBlocks == 0..NumPlates
Residents == 1..NumResidents

are_players_on_block_airborne(pos, at, ground) ==
    \E q \in DOMAIN at : at[q] = pos

are_players_on_block(pos, at, ground) ==
    \E q \in DOMAIN at : at[q] = pos /\ ground[q]

\* Plot::set_pressure_plate: the blocks of the world after the call and the
\* calls it makes, in order. With an active backend the call goes to the
\* backend and the world's block stays; without one the plate is stored and
\* the blocks around it and around the block beneath it are updated.
Below(pos) == <<"below", pos>>

set_pressure_plate_and_world(ab, blocks, pos, powered) ==
    [blocks |-> IF blocks[pos] \in {"on", "off"}
                THEN [blocks EXCEPT ![pos] = IF powered THEN "on" ELSE "off"]
                ELSE blocks,
     calls |-> IF ab # None
               THEN <<[fn |-> "backend.set_pressure_plate", backend |-> ab[1],
                       pos |-> pos, powered |-> powered]>>
               ELSE <<>>]

set_pressure_plate(ab, blocks, pos, powered) ==
    IF ab # None
    THEN [blocks |-> blocks,
          calls |-> <<[fn |-> "backend.set_pressure_plate", backend |-> ab[1],
                       pos |-> pos, powered |-> powered]>>]
    ELSE IF blocks[pos] \in {"on", "off"}
    THEN [blocks |-> [blocks EXCEPT ![pos] = IF powered THEN "on" ELSE "off"],
          calls |-> <<[fn |-> "set_block", backend |-> 0, pos |-> pos, powered |-> powered],
                      [fn |-> "update_surrounding_blocks", backend |-> 0, pos |-> pos,
                       powered |-> powered],
                      [fn |-> "update_surrounding_blocks", backend |-> 0, pos |-> Below(pos),
                       powered |-> powered]>>]
    ELSE [blocks |-> blocks, calls |-> <<>>]

on_player_move(ab, blocks, at, ground, player_idx, old, new) ==
    LET old_block == blocks[old]
        new_block == blocks[new]
        stay == [blocks |-> blocks, calls |-> <<>>]
        left == IF old_block = "on" /\ ~are_players_on_block(old, at, ground)
                THEN set_pressure_plate(ab, blocks, old, FALSE)
                ELSE stay
        entered == IF new_block = "off" /\ ground[player_idx]
                   THEN set_pressure_plate(ab, left.blocks, new, TRUE)
                   ELSE [stay EXCEPT !.blocks = left.blocks]
    IN  [blocks |-> entered.blocks, calls |-> left.calls \o entered.calls]

PlateInit ==
    /\ plates = [b \in PlateBlocks |-> IF b = 0 THEN "none" ELSE "off"]
    /\ player_pos = [q \in Residents |-> 0]
    /\ on_ground = [q \in Residents |-> TRUE]
    /\ plate_op = [player_idx |-> 0, old |-> 0, new |-> 0,
                   old_block |-> "none", new_block |-> "none",
                   backend |-> None, calls |-> <<>>, before |-> plates, after |-> plates]

\* A movement packet of player_idx: the handler stores the position and
\* on_ground it carries, then calls on_player_move.
PlayerMove(player_idx, new, ground) ==
    LET at == [player_pos EXCEPT ![player_idx] = new]
        gr == [on_ground EXCEPT ![player_idx] = ground]
        old == player_pos[player_idx]
    IN  /\ player_pos' = at
        /\ on_ground' = gr
        /\ plates' = on_player_move(active_backend, plates, at, gr, player_idx, old, new).blocks
        /\ plate_op' = [player_idx |-> player_idx, old |-> old, new |-> new,
                        old_block |-> plates[old], new_block |-> plates[new],
                        backend |-> active_backend,
                        calls |-> on_player_move(active_backend, plates, at, gr, player_idx,
                                                 old, new).calls,
                        before |-> plates, after |-> plates']
        /\ UNCHANGED notPlateVars

\* A position outside the plot: the position of a player that is not in
\* Plot.players.
Outside == NumPlates + 1
InPlot(q) == player_pos[q] # Outside

\* A movement packet that takes the player across the border of the plot:
\* on_player_move runs for the block it leaves, then remove_oob_players calls
\* leave_plot. Block 0 stands for the block outside: it holds no plate.
PlateWalkOut(player_idx, ground) ==
    LET at == [player_pos EXCEPT ![player_idx] = Outside]
        gr == [on_ground EXCEPT ![player_idx] = ground]
        old == player_pos[player_idx]
        r == on_player_move(active_backend, plates, at, gr, player_idx, old, 0)
    IN  /\ InPlot(player_idx)
        /\ player_pos' = at
        /\ on_ground' = gr
        /\ plates' = r.blocks
        /\ plate_op' = [player_idx |-> player_idx, old |-> old, new |-> 0,
                        old_block |-> plates[old], new_block |-> plates[0],
                        backend |-> active_backend, calls |-> r.calls,
                        before |-> plates, after |-> plates']
        /\ UNCHANGED notPlateVars

\* Plot::claim_plot teleports the player to the centre of another plot:
\* Player::teleport sets the position, on_player_move is not called, and
\* remove_oob_players calls leave_plot, which leaves the blocks alone.
PlateTeleportOut(player_idx) ==
    /\ InPlot(player_idx)
    /\ player_pos' = [player_pos EXCEPT ![player_idx] = Outside]
    /\ UNCHANGED <<plates, on_ground, plate_op>>
    /\ UNCHANGED notPlateVars

\* Plot::remove_dc_players: the player is taken out of players; the blocks are
\* left alone.
PlateDisconnect(player_idx) ==
    /\ InPlot(player_idx)
    /\ player_pos' = [player_pos EXCEPT ![player_idx] = Outside]
    /\ UNCHANGED <<plates, on_ground, plate_op>>
    /\ UNCHANGED notPlateVars

\* Plot::enter_plot: the player is pushed to players at the position it has.
PlateEnterPlot(player_idx, pos, ground) ==
    /\ ~InPlot(player_idx)
    /\ player_pos' = [player_pos EXCEPT ![player_idx] = pos]
    /\ on_ground' = [on_ground EXCEPT ![player_idx] = ground]
    /\ UNCHANGED <<plates, plate_op>>
    /\ UNCHANGED notPlateVars

\* --------------------------------------------------------- broadcast bus
BroadcastKinds == {"Chat", "PlayerJoinedInfo", "PlayerLeft", "PlayerUpdateGamemode"}

ShutdownSent(log) == \E i \in 1..Len(log) : log[i].type = "Shutdown"

\* bus::Bus::add_rx: the reader sees the broadcasts made from now on.
\* bus::BusReader::try_recv: the oldest broadcast the reader has not returned yet.
add_rx(log) == Len(log) + 1
try_recv(log, next) == IF next <= Len(log) THEN Some(log[next]) ELSE None

RECURSIVE handle_broadcasts_without_chat(_, _)
handle_broadcasts_without_chat(log, next) ==
    LET message == try_recv(log, next)
    IN  IF message = None THEN [handled |-> <<>>, next |-> next, running |-> TRUE]
        ELSE IF message[1].type = "Shutdown"
        THEN [handled |-> message, next |-> next + 1, running |-> FALSE]
        ELSE LET r == handle_broadcasts_without_chat(log, next + 1)
             IN  [r EXCEPT !.handled =
                      IF message[1].type = "Chat" THEN @ ELSE message \o @]

\* The first loop of Plot::handle_messages: every message try_recv returns is
\* acted on; Shutdown ends the call and the worker's loop.
RECURSIVE handle_broadcasts(_, _)
handle_broadcasts(log, next) ==
    LET message == try_recv(log, next)
    IN  IF message = None THEN [handled |-> <<>>, next |-> next, running |-> TRUE]
        ELSE IF message[1].type = "Shutdown"
        THEN [handled |-> message, next |-> next + 1, running |-> FALSE]
        ELSE LET r == handle_broadcasts(log, next + 1)
             IN  [r EXCEPT !.handled = message \o @]

\* MinecraftServer::run subscribes the spawn plot before anything is broadcast.
BusInit ==
    /\ bus_log = <<>>
    /\ bus_reader = [w \in WorkerIds |->
                        IF w = 1 THEN [state |-> "open", next |-> add_rx(<<>>)]
                        ELSE [state |-> "none", next |-> 0]]
    /\ bus_sub = [w \in WorkerIds |-> IF w = 1 THEN 1 ELSE 0]
    /\ bus_handled = [w \in WorkerIds |-> <<>>]

\* MinecraftServer::handle_message broadcasts a chat message, a join, a leave
\* or a gamemode change.
BusBroadcast(kind) ==
    /\ ~ShutdownSent(bus_log)
    /\ Len(bus_log) < MaxBroadcasts
    /\ bus_log' = Append(bus_log, [type |-> kind, no |-> Len(bus_log) + 1])
    /\ UNCHANGED <<bus_reader, bus_sub, bus_handled>>
    /\ UNCHANGED notBusVars

\* MinecraftServer::graceful_shutdown
BusShutdown ==
    /\ ~ShutdownSent(bus_log)
    /\ bus_log' = Append(bus_log, [type |-> "Shutdown", no |-> Len(bus_log) + 1])
    /\ UNCHANGED <<bus_reader, bus_sub, bus_handled>>
    /\ UNCHANGED notBusVars

\* MinecraftServer::send_player_to_plot spawns the worker of a plot.
BusSubscribe(w) ==
    /\ ~ShutdownSent(bus_log)
    /\ bus_reader[w].state = "none"
    /\ bus_reader' = [bus_reader EXCEPT ![w] = [state |-> "open", next |-> add_rx(bus_log)]]
    /\ bus_sub' = [bus_sub EXCEPT ![w] = Len(bus_log) + 1]
    /\ UNCHANGED <<bus_log, bus_handled>>
    /\ UNCHANGED notBusVars

\* Plot::handle_messages of one iteration of the worker's loop.
BusHandleMessages(w) ==
    LET r == handle_broadcasts(bus_log, bus_reader[w].next)
    IN  /\ bus_reader[w].state = "open"
        /\ bus_handled' = [bus_handled EXCEPT ![w] = @ \o r.handled]
        /\ bus_reader' = [bus_reader EXCEPT ![w] =
                              [state |-> IF r.running THEN "open" ELSE "closed",
                               next |-> r.next]]
        /\ UNCHANGED <<bus_log, bus_sub>>
        /\ UNCHANGED notBusVars

\* The worker stops for another reason (the plot is idle): its reader is dropped.
BusWorkerStops(w) ==
    /\ bus_reader[w].state = "open"
    /\ bus_reader' = [bus_reader EXCEPT ![w].state = "closed"]
    /\ UNCHANGED <<bus_log, bus_sub, bus_handled>>
    /\ UNCHANGED notBusVars

\* ------------------------------------------------------ handshake, login
ProxyUuid(n) == <<"Proxy", n>>
WhitelistEntry == [uuid |-> ProxyUuid(1), name |-> 1]
WhitelistSamples == {None, Some({}), Some({WhitelistEntry})}

\* CONFIG.velocity.secret and a key the proxy does not hold.
Secret == "secret"
Keys == {Secret, "guess"}

\* Hmac<Sha256>: a tag that depends on the key and on every byte of the
\* message; two different inputs do not share a tag.
Hmac(key, message) == [key |-> key, message |-> message]

\* VelocityResponseData, the part of the payload behind the 32 bytes of the
\* signature.
VelocityResponseData(n) == [uuid |-> ProxyUuid(n), properties |-> <<"textures", n>>]

\* SLoginPluginResponse: data is the signature followed by the payload, or
\* bytes VelocityResponseData::decode rejects. The signature is made with any
\* key and over any payload.
PluginResponses ==
    {[type |-> "LoginPluginResponse", message_id |-> id, successful |-> ok,
      data |-> IF decodes
               THEN Some([signature |-> Hmac(key, VelocityResponseData(signed)),
                          payload |-> VelocityResponseData(n)])
               ELSE None] :
         id \in 1..MaxMessageId, ok \in BOOLEAN, decodes \in BOOLEAN, key \in Keys,
         signed \in Names, n \in Names}

\* The responses the proxy makes for the first request of a connection.
ProxyResponses ==
    {r \in PluginResponses :
         /\ r.message_id = 1
         /\ r.data # None
         /\ r.data[1].signature = Hmac(Secret, r.data[1].payload)}

\* The packets of a client that logs in through the proxy, and of one that
\* makes the responses up.
ForwardPackets ==
    {[type |-> "Handshake", next_state |-> 2, protocol_version |-> PROTOCOL_VERSION]}
    \cup {[type |-> "LoginStart", name |-> n] : n \in Names}
    \cup PluginResponses
    \cup {[type |-> "LoginAcknowledged"], [type |-> "AcknowledgeFinishConfiguration"]}

\* The packets a client sends before it plays. next_state 1 is Status, 2 is Login.
ClientPackets ==
    {[type |-> "Handshake", next_state |-> ns, protocol_version |-> v] :
         ns \in 1..3, v \in {PROTOCOL_VERSION, PROTOCOL_VERSION - 1}}
    \cup {[type |-> "LoginStart", name |-> n] : n \in Names}
    \cup ProxyResponses
    \cup {[type |-> "LoginAcknowledged"], [type |-> "AcknowledgeFinishConfiguration"]}

\* The reader of a connection decodes a packet by the state the packets
\* before it left the connection in.
Accepts(net_state, packet) ==
    CASE net_state = "Handshaking" -> packet.type = "Handshake"
      [] net_state = "Login" ->
             packet.type \in {"LoginStart", "LoginPluginResponse", "LoginAcknowledged"}
      [] net_state = "Configuration" -> packet.type = "AcknowledgeFinishConfiguration"
      [] OTHER -> FALSE

NextNetState(net_state, packet) ==
    CASE packet.type = "Handshake" ->
             IF packet.next_state = 1 THEN "Status"
             ELSE IF packet.next_state = 2 THEN "Login" ELSE net_state
      [] packet.type = "LoginAcknowledged" -> "Configuration"
      [] packet.type = "AcknowledgeFinishConfiguration" -> "Play"
      [] OTHER -> net_state

send_packet(c, packet) == [c EXCEPT !.sent = Append(@, packet)]

handle_handshake(c, handshake) ==
    IF handshake.next_state \notin {1, 2} THEN c
    ELSE IF handshake.next_state = 2 /\ handshake.protocol_version # PROTOCOL_VERSION
    THEN [send_packet(c, "DisconnectVersionMismatch") EXCEPT !.closed = TRUE]
    ELSE c

complete_player_login(c, cfg) ==
    LET compressed == [send_packet(c, "SetCompression") EXCEPT !.compressed = TRUE]
        whitelisted ==
            IF c.uuid # None
            THEN \E entry \in cfg.whitelist[1] : entry.uuid = c.uuid[1]
            ELSE \E entry \in cfg.whitelist[1] : entry.name = c.username[1]
        checked == IF cfg.whitelist # None /\ ~whitelisted
                   THEN send_packet(compressed, "DisconnectNotWhitelisted")
                   ELSE compressed
        uuid == IF c.uuid # None THEN c.uuid
                ELSE Some(generate_offline_uuid(c.username[1]))
    IN  send_packet([checked EXCEPT !.uuid = uuid], "LoginSuccess")

\* message_id = rand::random(): the ids come in an order the client does not
\* choose, here 1, 2, ... and back to 1 after MaxMessageId.
random_message_id(c) == (c.requests % MaxMessageId) + 1

handle_player_login_start(c, cfg, login_start) ==
    LET named == [c EXCEPT !.username = Some(login_start.name)]
    IN  IF cfg.velocity
        THEN send_packet([named EXCEPT
                              !.forwarding_message_id = Some(random_message_id(c)),
                              !.requests = (@ + 1) % MaxMessageId],
                         "LoginPluginRequest")
        ELSE complete_player_login(named, cfg)

\* handle_login_plugin_response without the verification of the signature.
handle_login_plugin_response_unverified(c, cfg, packet) ==
    IF Some(packet.message_id) # c.forwarding_message_id THEN c
    ELSE IF ~packet.successful THEN c
    ELSE IF packet.data = None THEN c
    ELSE complete_player_login([c EXCEPT !.uuid = Some(packet.data[1].payload.uuid),
                                         !.properties = packet.data[1].payload.properties],
                               cfg)

\* MinecraftServer::handle_login_plugin_response: the message id, the
\* successful flag, the decoding and the signature are checked in this order;
\* mac.update(&packet.data[32..]) and mac.verify_slice(&packet.data[..32]).
handle_login_plugin_response(c, cfg, packet) ==
    IF Some(packet.message_id) # c.forwarding_message_id THEN c
    ELSE IF ~packet.successful THEN c
    ELSE IF packet.data = None THEN c
    ELSE IF Hmac(Secret, packet.data[1].payload) # packet.data[1].signature THEN c
    ELSE complete_player_login([c EXCEPT !.uuid = Some(packet.data[1].payload.uuid),
                                         !.properties = packet.data[1].payload.properties],
                               cfg)

handle_login_acknowledged(c) == send_packet(c, "FinishConfiguration")

\* uuid and username are unwrapped.
handle_player_enter_play(c) ==
    IF c.uuid = None \/ c.username = None THEN [c EXCEPT !.panicked = TRUE]
    ELSE [send_packet(c, "Login") EXCEPT !.promoted = TRUE]

handle(c, cfg, packet) ==
    CASE packet.type = "Handshake" -> handle_handshake(c, packet)
      [] packet.type = "LoginStart" -> handle_player_login_start(c, cfg, packet)
      [] packet.type = "LoginPluginResponse" -> handle_login_plugin_response(c, cfg, packet)
      [] packet.type = "LoginAcknowledged" -> handle_login_acknowledged(c)
      [] packet.type = "AcknowledgeFinishConfiguration" -> handle_player_enter_play(c)

\* The fields of the connection a handler reads and writes.
Fields(c) ==
    [username |-> c.username, uuid |-> c.uuid, properties |-> c.properties,
     forwarding_message_id |-> c.forwarding_message_id, compressed |-> c.compressed,
     sent |-> c.sent]

\* What the connection was when it was turned away: by its handshake, or by
\* the whitelist check of complete_player_login.
Noted(before, after, cfg, packet) ==
    [after EXCEPT
        !.mismatch = @ \/ (/\ packet.type = "Handshake"
                           /\ packet.next_state = 2
                           /\ packet.protocol_version # PROTOCOL_VERSION),
        !.checks = IF Len(after.sent) > Len(before.sent)
                      /\ after.sent[Len(after.sent)] = "LoginSuccess"
                   THEN Append(@, [uuid |-> IF packet.type = "LoginPluginResponse"
                                            THEN Some(packet.data[1].payload.uuid)
                                            ELSE before.uuid,
                                   name |-> after.username[1]])
                   ELSE @,
        !.handled = Append(@, [packet |-> packet, before |-> Fields(before),
                               after |-> Fields(after)])]

\* for packet in packets { packet.handle(self, client_idx); }
RECURSIVE HandlePackets(_, _, _)
HandlePackets(c, cfg, packets) ==
    IF packets = <<>> \/ c.promoted \/ c.panicked THEN c
    ELSE HandlePackets(Noted(c, handle(c, cfg, Head(packets)), cfg, Head(packets)),
                       cfg, Tail(packets))

LoginInit(wl, velocity) ==
    /\ login_cfg = [whitelist |-> wl, velocity |-> velocity]
    /\ login_conn = [net_state |-> "Handshaking", queue |-> <<>>, received |-> 0,
                     closed |-> FALSE, username |-> None, uuid |-> None,
                     properties |-> <<>>, forwarding_message_id |-> None,
                     requests |-> 0, compressed |-> FALSE, sent |-> <<>>,
                     promoted |-> FALSE, panicked |-> FALSE, mismatch |-> FALSE,
                     checks |-> <<>>, handled |-> <<>>]

\* The reader thread of the connection decodes the next packet of the client;
\* it reads nothing from a closed connection. Only the proxy can sign a
\* plugin response.
ClientSends(packet) ==
    /\ ~login_conn.closed
    /\ login_conn.received < MaxPackets
    /\ Accepts(login_conn.net_state, packet)
    /\ packet.type = "LoginPluginResponse" => login_cfg.velocity
    /\ login_conn' = [login_conn EXCEPT !.queue = Append(@, packet),
                                        !.received = @ + 1,
                                        !.net_state = NextNetState(@, packet)]
    /\ UNCHANGED login_cfg
    /\ UNCHANGED notLoginVars

\* MinecraftServer::update: the packets received from the connection are
\* handled one after the other.
ServerUpdate ==
    /\ login_conn.queue # <<>>
    /\ ~login_conn.promoted
    /\ ~login_conn.panicked
    /\ login_conn' = HandlePackets([login_conn EXCEPT !.queue = <<>>], login_cfg,
                                   login_conn.queue)
    /\ UNCHANGED login_cfg
    /\ UNCHANGED notLoginVars

\* ------------------------------------------------- saving and loading a plot
\* The chunks of the Vec that BlockSamples reach: the two first chunks of the
\* first row and the first chunk of the second row.
ChunkIndexSamples == {0, 1, PLOT_WIDTH}

RECURSIVE Ascending(_)
Ascending(S) ==
    IF S = {} THEN <<>>
    ELSE LET m == CHOOSE a \in S : \A b \in S : a <= b
         IN  <<m>> \o Ascending(S \ {m})

IndexIn(seq, e) == CHOOSE k \in 1..Len(seq) : seq[k] = e

\* ChunkData: the compressed form of a chunk. Per section that holds a block,
\* the palette of the ids in it and, per cell, the position of its id in the
\* palette; sections and cells of air are left out.
ChunkData_new(ch, i) ==
    LET cells == {c \in DOMAIN ch : c[1] = i}
        section(c) == c[3] \div 16
        palette(s) == Ascending({ch[c] : c \in {d \in cells : section(d) = s}})
    IN  [s \in {section(c) : c \in cells} |->
            [palette |-> palette(s),
             data |-> [k \in {<<c[2], c[3] % 16, c[4]>> : c \in {d \in cells : section(d) = s}} |->
                          IndexIn(palette(s), ch[<<i, k[1], s * 16 + k[2], k[3]>>])]]]

ChunkData_load(data, i) ==
    LET cells == {<<i, k[1], s * 16 + k[2], k[3]>> : s \in DOMAIN data, k \in UNION {DOMAIN data[t].data : t \in DOMAIN data}}
    IN  [c \in {d \in cells : <<d[2], d[3] % 16, d[4]>> \in DOMAIN data[d[3] \div 16].data} |->
            LET section == data[c[3] \div 16]
            IN  section.palette[section.data[<<c[2], c[3] % 16, c[4]>>]]]

empty_plot == [chunk_data |-> [i \in ChunkIndexSamples |-> ChunkData_new(EmptyChunks, i)],
               pending_ticks |-> <<>>]

\* Plot::save: the PlotData written to the plot's file.
save(ch, ticks) ==
    [chunk_data |-> [i \in ChunkIndexSamples |-> ChunkData_new(ch, i)],
     pending_ticks |-> ticks]

from_data_transposed(plot_data, x, z) ==
    LET chunk_x_offset == x * (2 ^ PLOT_SCALE)
        chunk_z_offset == z * (2 ^ PLOT_SCALE)
        loaded == [i \in DOMAIN plot_data.chunk_data |-> ChunkData_load(plot_data.chunk_data[i], i)]
    IN  [chunks |-> [c \in UNION {DOMAIN loaded[i] : i \in DOMAIN loaded} |-> loaded[c[1]][c]],
         chunk_xz |-> [i \in DOMAIN plot_data.chunk_data |->
                          <<chunk_x_offset + (i % PLOT_WIDTH), chunk_z_offset + (i \div PLOT_WIDTH)>>],
         to_be_ticked |-> plot_data.pending_ticks]

from_data(plot_data, x, z) ==
    LET chunk_x_offset == x * (2 ^ PLOT_SCALE)
        chunk_z_offset == z * (2 ^ PLOT_SCALE)
        loaded == [i \in DOMAIN plot_data.chunk_data |-> ChunkData_load(plot_data.chunk_data[i], i)]
    IN  [chunks |-> [c \in UNION {DOMAIN loaded[i] : i \in DOMAIN loaded} |-> loaded[c[1]][c]],
         chunk_xz |-> [i \in DOMAIN plot_data.chunk_data |->
                          <<chunk_x_offset + (i \div PLOT_WIDTH), chunk_z_offset + (i % PLOT_WIDTH)>>],
         to_be_ticked |-> plot_data.pending_ticks]

NoSave == [op |-> "none", written |-> <<>>]

SaveInit ==
    /\ plot_file = None
    /\ chunk_xz = from_data(empty_plot, world_xz[1], world_xz[2]).chunk_xz
    /\ save_op = NoSave

\* Plot::save, from the end of Plot::run.
Save ==
    /\ plot_file' = Some(save(chunks, to_be_ticked))
    /\ save_op' = [op |-> "save", written |-> last_set]
    /\ UNCHANGED chunk_xz
    /\ UNCHANGED notSaveVars

\* Plot::load of a plot whose file exists: a new Plot, without players, made
\* by from_data.
LoadPlot ==
    /\ plot_file # None
    /\ LET plot == from_data(plot_file[1], world_xz[1], world_xz[2])
       IN  /\ chunks' = plot.chunks
           /\ chunk_xz' = plot.chunk_xz
           /\ to_be_ticked' = plot.to_be_ticked
    /\ multi_blocks' = {}
    /\ client_view' = [s \in Sinks |-> EmptyChunks]
    /\ last_set' = save_op.written
    /\ world_panicked' = FALSE
    /\ block_op' = [op |-> "load", pos |-> <<>>, block |-> 0, ret |-> 0, prev |-> 0,
                    packets |-> {}, again |-> FALSE]
    /\ save_op' = [save_op EXCEPT !.op = "load"]
    /\ UNCHANGED <<plot_file, world_xz, oob_used, next_id, pre_tick, last_fired>>
    /\ UNCHANGED <<routeVars, idleVars, backendVars, viewVars, plateVars, interactVars,
                   busVars, loginVars, paceVars, coordVars, senderVars, delayVars>>

\* ------------------------------------------------------------- tick pacing
\* Durations are in nanoseconds.
NanosPerSec == 1000000000
BatchCap == 50000
TickDeadline == 200000000
WorldSendRateHz == 60

\* Tps::Limited(n) is n, Limited(0) is paused.
Unlimited == -1
TpsSamples == {0, 20, 50, 2000000000}
SinceUpdateSamples == {0, 30000000, 120000000}
TickTimeSamples == {0, 1000000, 250000000}

\* u64 as u32 drops the bits from 2^32 up; every batch size the samples give
\* is below 2^31 and keeps its value.
as_u32(n) == n

ticks_without_players(present) == TRUE

\* if !self.players.is_empty()
ticks_with_players(present) == present

max_batch_size(last_nspt, world_send_rate) ==
    IF last_nspt = None \/ last_nspt = Some(0) THEN 1
    ELSE Max(world_send_rate \div last_nspt[1], 1)

\* let batch_size = match self.tps { .. }: a zero dur_per_tick panics in the
\* division.
batch_size(tps, lag_time, since_update, max_batch) ==
    IF tps = Unlimited THEN [panic |-> FALSE, batch |-> max_batch, lag_time |-> lag_time]
    ELSE IF tps = 0 THEN [panic |-> FALSE, batch |-> 0, lag_time |-> lag_time]
    ELSE LET dur_per_tick == NanosPerSec \div tps
             lag == lag_time + since_update
         IN  IF dur_per_tick = 0
             THEN [panic |-> TRUE, batch |-> 0, lag_time |-> lag]
             ELSE LET batch == lag \div dur_per_tick
                  IN  [panic |-> FALSE, batch |-> Min(batch, max_batch),
                       lag_time |-> lag - dur_per_tick * as_u32(batch)]

\* n calls of Plot::tick without an active backend; a tick of an empty queue
\* leaves it empty.
RECURSIVE TickTimes(_, _)
TickTimes(st, n) ==
    IF n = 0 THEN st
    ELSE IF st.queue = <<>> THEN [st EXCEPT !.pre = <<>>, !.fired = <<>>]
    ELSE LET r == tick(st.queue, 0, TickEntry("p", 0, "High", 0))
         IN  TickTimes([queue |-> r.queue, pre |-> st.queue, fired |-> r.fired,
                        any |-> st.any \/ r.fired # <<>>], n - 1)

NoPace ==
    [present |-> FALSE, since_update |-> 0, lag_time |-> 0, last_nspt |-> None,
     batch |-> 0, ticks |-> 0, by |-> "none", flushed |-> FALSE, kept |-> TRUE]

PaceInit(tps) ==
    /\ pace = [tps |-> tps, world_send_rate |-> WorldSendRateHz, lag_time |-> 0,
               last_nspt |-> None, panicked |-> FALSE]
    /\ pace_op = NoPace

\* The tick step of one Plot::update. present: players is not empty after
\* handle_messages; since_update: now - last_update_time; tick_time:
\* last_update_time.elapsed() after the ticks; early: the interpreter's loop
\* broke at its first deadline test; send_due: the world send period is over.
PaceUpdate(present, since_update, tick_time, early, send_due) ==
    /\ ~pace.panicked
    /\ LET world_send_rate == NanosPerSec \div pace.world_send_rate
           max_batch == max_batch_size(pace.last_nspt, world_send_rate)
           bs == batch_size(pace.tps, pace.lag_time, since_update, max_batch)
           ticking == ticks_with_players(present)
           batch == IF ticking /\ ~bs.panic THEN Min(bs.batch, BatchCap) ELSE 0
           backend == active_backend # None
           ticks_completed == IF early THEN 1 ELSE batch
           ticked == IF batch # 0 /\ ~backend
                     THEN TickTimes([queue |-> to_be_ticked, pre |-> pre_tick,
                                     fired |-> last_fired, any |-> FALSE], ticks_completed)
                     ELSE [queue |-> to_be_ticked, pre |-> pre_tick, fired |-> last_fired,
                           any |-> FALSE]
           flushing == ticking /\ ~bs.panic /\ send_due
           flushed == flush_block_changes(chunks, multi_blocks, client_view)
       IN  /\ early => batch # 0 /\ ~backend /\ tick_time > TickDeadline
           /\ (~ticking \/ bs.panic) => ~send_due
           /\ batch = 0 => tick_time = 0
           /\ ~ticking => since_update = 0
           /\ pace' = IF ~ticking THEN pace
                      ELSE IF bs.panic THEN [pace EXCEPT !.panicked = TRUE]
                      ELSE [pace EXCEPT !.lag_time = bs.lag_time,
                                        !.last_nspt = IF batch # 0
                                                      THEN Some(tick_time \div ticks_completed)
                                                      ELSE @]
           /\ to_be_ticked' = ticked.queue
           /\ pre_tick' = ticked.pre
           /\ last_fired' = ticked.fired
           /\ world_state' = IF ticked.any THEN None ELSE world_state
           /\ client_view' = IF flushing THEN flushed.views ELSE client_view
           /\ multi_blocks' = IF flushing THEN flushed.dirty ELSE multi_blocks
           /\ pace_op' = [present |-> present,
                          since_update |-> since_update, lag_time |-> pace.lag_time,
                          last_nspt |-> pace.last_nspt, batch |-> batch,
                          ticks |-> IF batch # 0 THEN ticks_completed ELSE 0,
                          by |-> IF batch = 0 THEN "none"
                                 ELSE IF backend THEN "backend" ELSE "interpreter",
                          flushed |-> flushing,
                          kept |-> /\ to_be_ticked' = to_be_ticked
                                   /\ world_state' = world_state
                                   /\ multi_blocks' = multi_blocks
                                   /\ client_view' = client_view]
    /\ lifecycle' = Settle(lifecycle)
    /\ UNCHANGED <<next_id, active_backend, backends, builders, activated, starts>>
    /\ UNCHANGED <<world_xz, chunks, block_op, last_set, oob_used, world_panicked>>
    /\ UNCHANGED <<routeVars, idleVars, viewVars, plateVars, interactVars, busVars,
                   loginVars, saveVars, coordVars, senderVars, delayVars>>

\* ------------------------------------------- players and packet senders
SenderConns == 1..NumSenderConns

IndexOf(seq, x) == CHOOSE i \in 1..Len(seq) : seq[i] = x /\ \A j \in 1..(i - 1) : seq[j] # x

\* Plot::from_data: players and packet_senders are empty vectors.
SenderInit ==
    /\ plot_players = <<>>
    /\ packet_senders = <<>>
    /\ sender_op = [kind |-> "none", player |-> 0, written |-> {}, closed |-> {},
                    running |-> TRUE]

\* Plot::leave_plot: the player and the packet sender at the player's index
\* are removed.
leave_plot_senders(ps, senders, player) ==
    LET player_idx == IndexOf(ps, player)
    IN  [players |-> RemoveAt(ps, player_idx), senders |-> RemoveAt(senders, player_idx)]

\* Plot::enter_plot: PlayerPacketSender::new(&player.client) and the player
\* are pushed. A player whose connection was closed does not come back on it.
SenderEnterPlot(player) ==
    /\ sender_op.running
    /\ player \notin sender_op.closed
    /\ \A i \in 1..Len(plot_players) : plot_players[i] # player
    /\ plot_players' = Append(plot_players, player)
    /\ packet_senders' = Append(packet_senders, player)
    /\ sender_op' = [sender_op EXCEPT !.kind = "enter_plot", !.player = player]
    /\ UNCHANGED notSenderVars

\* Plot::remove_oob_players: leave_plot of a player that walked or teleported
\* out of the plot.
SenderLeavePlot(player) ==
    /\ sender_op.running
    /\ \E i \in 1..Len(plot_players) : plot_players[i] = player
    /\ LET r == leave_plot_senders(plot_players, packet_senders, player)
       IN  /\ plot_players' = r.players
           /\ packet_senders' = r.senders
    /\ sender_op' = [sender_op EXCEPT !.kind = "leave_plot", !.player = player]
    /\ UNCHANGED notSenderVars

\* Plot::remove_dc_players: players.retain(alive); dc are the players whose
\* connection is closed.
SenderRemoveDc(dc) ==
    /\ sender_op.running
    /\ dc # {}
    /\ dc \subseteq {plot_players[i] : i \in 1..Len(plot_players)}
    /\ plot_players' = SelectSeq(plot_players, LAMBDA c : c \notin dc)
    /\ sender_op' = [sender_op EXCEPT !.kind = "remove_dc_players", !.player = 0,
                                      !.closed = @ \cup dc]
    /\ UNCHANGED packet_senders
    /\ UNCHANGED notSenderVars

\* Plot::handle_messages on BroadcastMessage::Shutdown: players.drain(..),
\* running = false.
SenderShutdown ==
    /\ sender_op.running
    /\ plot_players' = <<>>
    /\ sender_op' = [sender_op EXCEPT !.kind = "shutdown", !.player = 0, !.running = FALSE]
    /\ UNCHANGED packet_senders
    /\ UNCHANGED notSenderVars

\* PlotWorld::flush_block_changes, set_block_entity and play_sound: the packet
\* is written to every entry of packet_senders.
SenderWorldPacket ==
    /\ sender_op.running
    /\ sender_op' = [sender_op EXCEPT
                        !.kind = "world_packet", !.player = 0,
                        !.written = {packet_senders[i] : i \in 1..Len(packet_senders)}]
    /\ UNCHANGED <<plot_players, packet_senders>>
    /\ UNCHANGED notSenderVars

\* ------------------------------------------------------ specification
ElapsedSamples == {0, (IdleLimitSecs + 1) * MillisPerSec}

\* MinecraftServer::run: the spawn plot is loaded with always_running = true
\* and no initial player.
RouteInit ==
    /\ srv_pc = "run"
    /\ inbox = <<>>
    /\ online_players = [u \in Uuids |-> NoPlot]
    /\ running_plots = <<[plot |-> SpawnPlot, tx |-> 1]>>
    /\ whitelist = TRUE
    /\ whitelist_written = FALSE
    /\ exit_code = -1
    /\ pc = [w \in WorkerIds |-> IF w = 1 THEN "load" ELSE "none"]
    /\ plot_of = [w \in WorkerIds |-> SpawnPlot]
    /\ always_running = [w \in WorkerIds |-> w = 1]
    /\ running = [w \in WorkerIds |-> TRUE]
    /\ players = [w \in WorkerIds |-> <<>>]
    /\ initial_player = [w \in WorkerIds |-> <<>>]
    /\ priv_inbox = [w \in WorkerIds |-> <<>>]
    /\ bus_rx = [w \in WorkerIds |-> <<>>]
    /\ exists = [c \in Conns |-> "new"]
    /\ pending = [c \in Conns |-> NoPlot]

PlotInit == BlockInit(<<0, 0>>) /\ ViewInit(<<0, 0>>, 1)

RestInit ==
    /\ PlateInit /\ interact_op = NoInteract /\ BusInit /\ SaveInit /\ PaceInit(20)
    /\ CoordInit
    /\ SenderInit
    /\ DelayInit

ExtraInit == PlotInit /\ RestInit /\ LoginInit(None, FALSE)

CoreInit == RouteInit /\ IdleInit(FALSE) /\ TickInit /\ BackendInit

Init == CoreInit /\ ExtraInit

CoordinatorStep ==
    \/ \E c \in Conns, n \in Names, p \in Plots : n <= c /\ EnterPlay(c, n, p)
    \/ HandleMessage
    \/ ShutdownOuter
    \/ ShutdownInner

WorkerStep(w) ==
    \/ \E ok \in BOOLEAN : Load(w, ok)
    \/ \E e \in ElapsedSamples, mv \in 0..NumConns, d \in Plots, dc \in SUBSET Conns :
           Update(w, e, mv, d, dc)
    \/ Drop(w)
    \/ FinalSave(w)

Next ==
    \/ CoordinatorStep
    \/ \E w \in WorkerIds : WorkerStep(w)
    \/ RequestShutdown

Spec == Init /\ [][Next]_vars

\* The scheduler runs every thread that can take a step: the coordinator and
\* each plot worker are OS threads.
FairSpec ==
    /\ Spec
    /\ WF_vars(CoordinatorStep)
    /\ \A w \in WorkerIds : WF_vars(WorkerStep(w))

InitIdle ==
    RouteInit /\ (\E a \in BOOLEAN : IdleInit(a)) /\ TickInit /\ BackendInit /\ ExtraInit

NextIdle ==
    \/ \E t \in IdleInstants : TimePasses(t)
    \/ \E enter \in 0..NumConns, leave \in 0..NumConns : IdleUpdate(enter, leave)

NextCrash ==
    \/ Next
    \/ \E w \in WorkerIds, holding_world_lock \in BOOLEAN : Panic(w, holding_world_lock)

SpecCrash == Init /\ [][NextCrash]_vars

SpecIdle == InitIdle /\ [][NextIdle]_vars

NextTick ==
    \/ \E pos \in Positions, delay \in Delays, priority \in Priorities :
           ScheduleTick(pos, delay, priority)
    \/ Tick(0, "p", 0, "High")
    \/ \E cbk \in 1..Len(tick(to_be_ticked, 0, <<>>).fired), pos \in Positions,
           delay \in Delays, priority \in Priorities : Tick(cbk, pos, delay, priority)

SpecTick == Init /\ [][NextTick]_vars

NextBackend ==
    \/ \E io_only \in BOOLEAN : StartBackend(io_only)
    \/ \E b \in builders : BuilderFinish(b)
    \/ \E i \in 1..MaxStarts : Activate(i)
    \/ ResetBackend
    \/ \E kind \in {"lever", "item", "dig"}, sched \in BOOLEAN : Interact(kind, sched)
    \/ Tick(0, "p", 0, "High")

SpecBackend == Init /\ [][NextBackend]_vars

NextBlocks ==
    \/ \E pos \in BlockSamples(world_xz), block \in BlockIds : SetBlockRaw(pos, block)
    \/ \E pos \in BlockSamples(world_xz) : GetBlockRaw(pos)
    \/ FlushBlockChanges

InitBlocks ==
    /\ CoreInit /\ (\E wxz \in PlotSamples : BlockInit(wxz))
    /\ ViewInit(<<0, 0>>, 1) /\ RestInit /\ LoginInit(None, FALSE)

NextView ==
    \E cur \in ChunkSamples(world_xz), force_load \in BOOLEAN : UpdateViewPos(cur, force_load)

InitView ==
    /\ CoreInit
    /\ \E wxz \in PlotSamples, vd \in ViewDistances : BlockInit(wxz) /\ ViewInit(wxz, vd)
    /\ RestInit /\ LoginInit(None, FALSE)

SpecView == InitView /\ [][NextView]_vars

NextPlate ==
    \E q \in Residents, new \in PlateBlocks, ground \in BOOLEAN : PlayerMove(q, new, ground)

SpecPlate == Init /\ [][NextPlate]_vars

NextBus ==
    \/ \E kind \in BroadcastKinds : BusBroadcast(kind)
    \/ BusShutdown
    \/ \E w \in WorkerIds : BusSubscribe(w)
    \/ \E w \in WorkerIds : BusHandleMessages(w)
    \/ \E w \in WorkerIds : BusWorkerStops(w)

SpecBus == Init /\ [][NextBus]_vars

InitLogin ==
    /\ CoreInit /\ PlotInit /\ RestInit
    /\ \E wl \in WhitelistSamples, velocity \in BOOLEAN : LoginInit(wl, velocity)

NextLogin ==
    \/ \E packet \in ClientPackets : ClientSends(packet)
    \/ ServerUpdate

SpecLogin == InitLogin /\ [][NextLogin]_vars

InitForward ==
    /\ CoreInit /\ PlotInit /\ RestInit
    /\ \E wl \in WhitelistSamples : LoginInit(wl, TRUE)

NextForward ==
    \/ \E packet \in ForwardPackets : ClientSends(packet)
    \/ ServerUpdate

SpecForward == InitForward /\ [][NextForward]_vars

SpecBlocks == InitBlocks /\ [][NextBlocks]_vars

NextPlateBackend ==
    \/ \E io_only \in BOOLEAN : starts < MaxPlateStarts /\ StartBackend(io_only)
    \/ \E b \in builders : BuilderFinish(b)
    \/ \E i \in 1..MaxStarts : Activate(i)
    \/ ResetBackend
    \/ NextPlate

SpecPlateBackend == Init /\ [][NextPlateBackend]_vars

NextUse ==
    \/ \E io_only \in BOOLEAN : StartBackend(io_only)
    \/ \E b \in builders : BuilderFinish(b)
    \/ \E i \in 1..MaxStarts : Activate(i)
    \/ ResetBackend
    \/ \E gate \in UseGates, lever_or_button, crouching, has_item, sched \in BOOLEAN :
           /\ sched => next_id <= MaxUseScheduled
           /\ UseItemOn(gate, lever_or_button, crouching, has_item, sched)

SpecUse == Init /\ [][NextUse]_vars

NextSave ==
    \/ \E pos \in {p \in BlockSamples(world_xz) : InsidePlot(world_xz, p)}, block \in 0..MaxSavedId :
           SetBlockRaw(pos, block)
    \/ Save
    \/ LoadPlot

SpecSave == InitBlocks /\ [][NextSave]_vars

InitPace ==
    /\ CoreInit /\ PlotInit /\ PlateInit /\ interact_op = NoInteract /\ BusInit /\ SaveInit
    /\ LoginInit(None, FALSE)
    /\ CoordInit /\ SenderInit /\ DelayInit
    /\ \E tps \in TpsSamples : PaceInit(tps)

NextPace ==
    \E present, early, send_due \in BOOLEAN, since_update \in SinceUpdateSamples,
       tick_time \in TickTimeSamples :
        PaceUpdate(present, since_update, tick_time, early, send_due)

SpecPace == InitPace /\ [][NextPace]_vars

NextTickStep ==
    \/ \E present, send_due \in BOOLEAN, since_update \in SinceUpdateSamples :
           PaceUpdate(present, since_update, 0, FALSE, send_due)
    \/ \E delay \in 1..MaxDelay : next_id <= MaxPaceScheduled /\ ScheduleTick("p", delay, "Normal")
    \/ \E block \in BlockIds : SetBlockRaw(<<0, 0, 0>>, block)
    \/ starts < MaxPlateStarts /\ StartBackend(FALSE)
    \/ \E b \in builders : BuilderFinish(b)
    \/ Activate(1)

SpecTickStep == Init /\ [][NextTickStep]_vars

CoordinatorCallsStep ==
    \/ \E c \in Conns, n \in Names, p \in Plots : n <= c /\ EnterPlay(c, n, p)
    \/ HandleMessageCalls
    \/ ShutdownOuter
    \/ ShutdownPoll

NextCalls ==
    \/ CoordinatorCallsStep
    \/ \E w \in WorkerIds : WorkerStep(w)
    \/ RequestShutdown

SpecCalls == Init /\ [][NextCalls]_vars

NextRespawn ==
    \/ Next
    \/ \E w \in WorkerIds : Reap(w)

SpecRespawn == Init /\ [][NextRespawn]_vars

NextSenders ==
    \/ \E player \in SenderConns : SenderEnterPlot(player)
    \/ \E player \in SenderConns : SenderLeavePlot(player)
    \/ \E dc \in SUBSET SenderConns : SenderRemoveDc(dc)
    \/ SenderShutdown
    \/ SenderWorldPacket

SpecSenders == Init /\ [][NextSenders]_vars

NextDelay ==
    \/ \E pos \in Positions, delay \in Delays, priority \in Priorities :
           ScheduleTickBetweenTicks(pos, delay, priority)
    \/ CountedTick(0, "p", 0, "High")
    \/ \E cbk \in 1..Len(tick(to_be_ticked, 0, <<>>).fired), pos \in Positions,
           delay \in Delays, priority \in Priorities : CountedTick(cbk, pos, delay, priority)

SpecDelay == Init /\ [][NextDelay]_vars

NextPlateLeave ==
    \/ \E q \in Residents, new \in PlateBlocks, ground \in BOOLEAN :
           InPlot(q) /\ PlayerMove(q, new, ground)
    \/ \E q \in Residents, ground \in BOOLEAN : PlateWalkOut(q, ground)
    \/ \E q \in Residents : PlateTeleportOut(q)
    \/ \E q \in Residents : PlateDisconnect(q)
    \/ \E q \in Residents, pos \in PlateBlocks, ground \in BOOLEAN :
           PlateEnterPlot(q, pos, ground)

SpecPlateLeave == Init /\ [][NextPlateLeave]_vars

\* --------------------------------------------------------- properties
RECURSIVE SumOver(_, _)
SumOver(S, f) ==
    IF S = {} THEN 0
    ELSE LET x == CHOOSE y \in S : TRUE IN f[x] + SumOver(S \ {x}, f)

InList(ps, c) == Cardinality({i \in 1..Len(ps) : ps[i].id = c})
InQueue(q, c) == Cardinality({i \in 1..Len(q) : CarriesPlayer(q[i]) /\ q[i].arg.id = c})

\* The number of holders of the Player value of connection c: messages in the
\* server inbox, and per worker its players list, its initial player and the
\* messages in its private inbox.
HolderCount(c) ==
    InQueue(inbox, c)
    + SumOver(WorkerIds, [w \in WorkerIds |-> InList(players[w], c) + InList(initial_player[w], c)
                                         + InQueue(priv_inbox[w], c)])

\* C1: while the server is up, every Player value that was made and not removed
\* on purpose (disconnect) has exactly one holder, and no other has any.
C1_ExactlyOneHolder ==
    srv_pc = "run" =>
        \A c \in Conns : HolderCount(c) = (IF exists[c] = "live" THEN 1 ELSE 0)

\* C2 (I1): each uuid is in the players lists of all workers at most once.
C2_UuidAtMostOnce ==
    \A u \in Uuids :
        SumOver(WorkerIds,
                [w \in WorkerIds |->
                    Cardinality({i \in 1..Len(players[w]) : players[w][i].uuid = u})])
            <= 1

\* C3 (P4): while the server is up, a player the coordinator has routed to a
\* plot and that is not integrated yet is with a worker of that plot that will
\* still integrate it: as its initial player, or in its private inbox while the
\* worker has not left its loop.
C3_RoutedPlayerIsDelivered ==
    srv_pc = "run" =>
        \A c \in Conns :
            pending[c] # NoPlot =>
                \E w \in WorkerIds :
                    /\ pc[w] \in {"load", "loop"}
                    /\ plot_of[w] = pending[c]
                    /\ InList(initial_player[w], c) + InQueue(priv_inbox[w], c) = 1

ShutdownDone ==
    /\ srv_pc = "exited"
    /\ exit_code = 0
    /\ running_plots = <<>>
    /\ whitelist_written
    /\ \A w \in WorkerIds :
           pc[w] # "none" => pc[w] \in {"final_save", "exited"} /\ players[w] = <<>>

\* C4: once the coordinator has broadcast Shutdown, eventually every worker has
\* stopped and emitted PlotUnload, running_plots is empty, the whitelist is
\* written and the process has exited with code 0.
C4_ShutdownTerminates == (srv_pc = "shutdown_outer") ~> ShutdownDone

C4_Witness ==
    /\ ShutdownDone
    /\ \E c \in Conns : exists[c] = "gone"
    /\ \E w \in WorkerIds : pc[w] = "final_save" /\ ~running[w]

\* C6: every worker spawned for the spawn plot (0,0) is created with
\* always_running = true.
C6_SpawnPlotAlwaysRunning ==
    \A w \in WorkerIds :
        pc[w] = "load" /\ plot_of[w] = SpawnPlot => always_running[w]

\* C5 (P5): an iteration that finds the plot empty, always_running false and
\* last_player_time more than 600 s old sets running = false.
C5_EvictedPastThreshold ==
    (idle_checked > IdleLimitSecs * MillisPerSec /\ ~idle.always_running) => ~idle.running

\* C7 (I3): while a backend is active, to_be_ticked is empty.
C7_ActiveBackendOwnsTime == active_backend # None => to_be_ticked = <<>>

\* C8 (P6): right after a reset_backend that follows a start_backend,
\* to_be_ticked is empty, no backend is active and the world is the terminal
\* state the started backend wrote through reset.
C8_StartThenReset ==
    lifecycle = "reset" =>
        /\ to_be_ticked = <<>>
        /\ active_backend = None
        /\ world_state = Some(starts)

Ids(s) == {s[i].id : i \in 1..Len(s)}
PreEntry(id) == CHOOSE e \in {pre_tick[i] : i \in 1..Len(pre_tick)} : e.id = id
\* The fired entries that were pending when the tick began, in firing order,
\* and the pending entries whose ticks_left is 0 once decremented.
FiredOfPre == SelectSeq(last_fired, LAMBDA e : e.id \in Ids(pre_tick))
DueIds == {pre_tick[i].id : i \in {j \in 1..Len(pre_tick) : pre_tick[j].ticks_left - 1 <= 0}}
FiredIds == [i \in 1..Len(FiredOfPre) |-> FiredOfPre[i].id]
HasKey(e, ticks_left, priority) == e.ticks_left = ticks_left /\ e.tick_priority = priority

\* C9 (P3): of the entries pending when an interpreter tick begins, exactly
\* those whose ticks_left is 0 after the decrement fire, each once, in
\* non-decreasing order of the key (ticks_left, priority) with High before
\* Normal before Low; with A(2, Normal), B(1, High), C(2, High) pending, the
\* tick fires B alone and leaves C in front of A, and the tick that finds
\* C(1, High) and A(1, Normal) fires C before A.
C9_TickOrdering ==
    /\ Ids(FiredOfPre) = DueIds
    /\ Len(FiredOfPre) = Cardinality(DueIds)
    /\ \A i, j \in 1..Len(FiredOfPre) :
           i < j =>
               LET a == PreEntry(FiredOfPre[i].id)
                   b == PreEntry(FiredOfPre[j].id)
               IN  \/ a.ticks_left < b.ticks_left
                   \/ /\ a.ticks_left = b.ticks_left
                      /\ Rank(a.tick_priority) <= Rank(b.tick_priority)
    /\ (/\ Len(pre_tick) = 3
        /\ HasKey(pre_tick[1], 2, "Normal")
        /\ HasKey(pre_tick[2], 1, "High")
        /\ HasKey(pre_tick[3], 2, "High"))
       => /\ FiredIds = <<pre_tick[2].id>>
          /\ Len(to_be_ticked) >= 2
          /\ to_be_ticked[1] = [pre_tick[3] EXCEPT !.ticks_left = 1]
          /\ to_be_ticked[2] = [pre_tick[1] EXCEPT !.ticks_left = 1]
    /\ Len(pre_tick) = 2 =>
           \A c, a \in 1..2 :
               (HasKey(pre_tick[c], 1, "High") /\ HasKey(pre_tick[a], 1, "Normal"))
                   => FiredIds = <<pre_tick[c].id, pre_tick[a].id>>

C9_Witness ==
    /\ pre_tick = <<TickEntry("p", 1, "High", 3), TickEntry("q", 1, "Normal", 1)>>
    /\ FiredIds = <<3, 1>>

\* C10: entries with an equal key (ticks_left, priority) fire in the order
\* schedule_tick inserted them, and every due entry fires exactly once, also
\* when several entries are for the same position.
C10_InsertionOrder ==
    /\ \A i, j \in 1..Len(FiredOfPre) :
           LET a == PreEntry(FiredOfPre[i].id)
               b == PreEntry(FiredOfPre[j].id)
           IN  (i < j /\ a.ticks_left = b.ticks_left /\ a.tick_priority = b.tick_priority)
                   => a.id < b.id
    /\ \A i \in 1..Len(pre_tick) :
           pre_tick[i].ticks_left <= 1 =>
               Cardinality({k \in 1..Len(last_fired) : last_fired[k].id = pre_tick[i].id}) = 1
    /\ \A i, j \in 1..Len(to_be_ticked) : i # j => to_be_ticked[i].id # to_be_ticked[j].id

C10_Witness ==
    \E i, j \in 1..Len(FiredOfPre) :
        /\ i < j
        /\ FiredOfPre[i].pos = FiredOfPre[j].pos
        /\ FiredOfPre[i].tick_priority = FiredOfPre[j].tick_priority
        /\ PreEntry(FiredOfPre[i].id).ticks_left = PreEntry(FiredOfPre[j].id).ticks_left

\* C11: as long as every set_block_raw was given a position inside the plot,
\* a get_block_raw inside the plot returns the id of the last set_block_raw at
\* that very position (air if there was none), whatever was written elsewhere,
\* and set_block_raw returns true exactly when the id it stores differs from
\* the id the position held.
C11_GetReturnsLastSet ==
    ~oob_used =>
        /\ (block_op.op = "get" /\ InsidePlot(world_xz, block_op.pos))
               => block_op.ret = last_set[block_op.pos]
        /\ block_op.op = "set"
               => block_op.ret = (IF block_op.prev # block_op.block THEN 1 ELSE 0)

C11_Witness ==
    /\ ~oob_used
    /\ block_op.op = "get"
    /\ InsidePlot(world_xz, block_op.pos)
    /\ block_op.ret # 0
    /\ \E q \in DOMAIN last_set : q # block_op.pos /\ last_set[q] = 0

\* C12: a set_block_raw at a position outside the plot, on any side, returns
\* false and leaves every chunk as it was, and a get_block_raw there returns 0.
C12_OutOfBoundsIgnored ==
    [][/\ (block_op'.op = "set" /\ ~InsidePlot(world_xz, block_op'.pos))
              => (chunks' = chunks /\ block_op'.ret = 0 /\ ~world_panicked')
       /\ (block_op'.op = "get" /\ ~InsidePlot(world_xz, block_op'.pos))
              => (block_op'.ret = 0 /\ ~world_panicked')]_vars

\* C13: right after flush_block_changes no chunk has a dirty cell left, every
\* packet sender has been sent the changes since the flush before (what it was
\* sent adds up to the chunks, and each packet carries the id the chunk
\* holds), and a flush that directly follows a flush sends nothing.
C13_FlushDeliversChanges ==
    block_op.op = "flush" =>
        /\ multi_blocks = {}
        /\ \A s \in Sinks : client_view[s] = chunks
        /\ \A p \in block_op.packets : chunk_get_block(chunks, p[1]) = p[2]
        /\ block_op.again => block_op.packets = {}

C13_Witness ==
    /\ block_op.op = "flush"
    /\ block_op.packets # {}

Chebyshev(a, b) ==
    LET dx == IF a[1] >= b[1] THEN a[1] - b[1] ELSE b[1] - a[1]
        dz == IF a[2] >= b[2] THEN a[2] - b[2] ELSE b[2] - a[2]
    IN  IF dx >= dz THEN dx ELSE dz

ChunkLoads(packets) == {i \in DOMAIN packets : packets[i].kind # "center"}

OneChunkStep(op) ==
    /\ op.cur # <<>>
    /\ ~op.force_load
    /\ \/ op.cur[1] = op.last[1] /\ op.cur[2] - op.last[2] \in {-1, 1}
       \/ op.cur[2] = op.last[2] /\ op.cur[1] - op.last[1] \in {-1, 1}

\* C14: when the player has moved by exactly one chunk along one axis and no
\* reload is forced, update_view_pos_for_player sends exactly
\* 2 * view_distance + 1 chunk packets, for as many different chunks, each
\* farther than view_distance (Chebyshev) from the old chunk and within
\* view_distance of the new one.
C14_OneStepLoadsOneRow ==
    OneChunkStep(view_op) =>
        LET loads == ChunkLoads(view_op.packets)
            at(i) == <<view_op.packets[i].x, view_op.packets[i].z>>
        IN  /\ Cardinality(loads) = 2 * view_distance + 1
            /\ Cardinality({at(i) : i \in loads}) = 2 * view_distance + 1
            /\ \A i \in loads :
                   /\ Chebyshev(at(i), view_op.last) > view_distance
                   /\ Chebyshev(at(i), view_op.cur) <= view_distance

C14_Witness ==
    /\ OneChunkStep(view_op)
    /\ view_distance = MaxViewDistance
    /\ \E i \in ChunkLoads(view_op.packets) : view_op.packets[i].kind = "chunk"
    /\ \E i \in ChunkLoads(view_op.packets) : view_op.packets[i].kind = "empty"

ChunkInsidePlot(wxz, x, z) ==
    /\ wxz[1] * PLOT_WIDTH <= x /\ x < (wxz[1] + 1) * PLOT_WIDTH
    /\ wxz[2] * PLOT_WIDTH <= z /\ z < (wxz[2] + 1) * PLOT_WIDTH

\* C15: every chunk packet sent to a player carries the real chunk exactly when
\* the requested chunk lies inside the plot (plot * PLOT_WIDTH <= chunk <
\* (plot + 1) * PLOT_WIDTH on both axes, negative plots included) and is an
\* empty chunk at the requested coordinates otherwise; the index of a real
\* chunk is inside the chunk array and is the index its blocks are stored
\* under; chunk (32, 0) is inside plot (1, 0) and chunk (64, 0) is not.
C15_RealChunkIffInsidePlot ==
    /\ \A i \in ChunkLoads(view_op.packets) :
           LET pk == view_op.packets[i]
           IN  IF ChunkInsidePlot(world_xz, pk.x, pk.z)
               THEN /\ pk.kind = "chunk"
                    /\ pk.index < NUM_CHUNKS
                    /\ get_chunk_index_for_block(world_xz, pk.x * 16, pk.z * 16)
                           = Some(pk.index)
               ELSE pk.kind = "empty"
    /\ ChunkInsidePlot(<<1, 0>>, 32, 0)
    /\ ~ChunkInsidePlot(<<1, 0>>, 64, 0)

C15_Witness ==
    /\ world_xz[1] < 0
    /\ \E i \in ChunkLoads(view_op.packets) :
           view_op.packets[i].kind = "chunk" /\ view_op.packets[i].x < 0
    /\ \E i \in ChunkLoads(view_op.packets) :
           view_op.packets[i].kind = "empty" /\ view_op.packets[i].x < 0

GroundedOn(pos, at, ground) ==
    {q \in Residents : at[q] = pos /\ ground[q]}

\* C16: with no backend active, a move of a player turns the powered plate at
\* the block it leaves off exactly when no player stands on that block on the
\* ground after the move, and turns the unpowered plate at the block it
\* arrives at on exactly when the moving player is on the ground; so a plate
\* is powered only while a player stands on it on the ground, and a plate a
\* player stepped onto and left is unpowered again.
C16_PressurePlateRule ==
    /\ [][active_backend = None =>
             LET op == plate_op'
             IN  /\ plates[op.old] = "on" =>
                        (plates'[op.old] = "off"
                             <=> GroundedOn(op.old, player_pos', on_ground') = {})
                 /\ plates[op.new] = "off" =>
                        (plates'[op.new] = "on" <=> on_ground'[op.player_idx])]_vars
    /\ [](active_backend = None =>
             \A b \in PlateBlocks :
                 plates[b] = "on" => GroundedOn(b, player_pos, on_ground) # {})

C16_Witness ==
    /\ plate_op.old_block = "on"
    /\ plate_op.old # plate_op.new
    /\ plates[plate_op.old] = "off"
    /\ plates[plate_op.new] = "on"

\* C17: a block break that passed the bounds and permission checks while an
\* io_only backend is active is rejected: the player is sent the io-only error
\* message and the block again, no block is destroyed, the backend is not
\* reset and stays the active backend. While a backend that is not io_only is
\* active, the backend is reset first, so no backend is active any more, and
\* then the block is destroyed.
C17_IoOnlyRejectsBreak ==
    interact_op.kind = "dig" =>
        /\ (interact_op.active /\ interact_op.io_only) =>
               /\ interact_op.error = "ERROR_IO_ONLY"
               /\ interact_op.resync
               /\ ~interact_op.destroyed
               /\ interact_op.world_kept
               /\ interact_op.active_after
        /\ (interact_op.active /\ ~interact_op.io_only) =>
               /\ interact_op.error = ""
               /\ ~interact_op.active_after
               /\ interact_op.destroyed

C17_Witness ==
    /\ interact_op.kind = "dig"
    /\ interact_op.active
    /\ interact_op.io_only
    /\ active_backend # None
    /\ world_state # None

IsPrefix(a, b) == Len(a) <= Len(b) /\ a = SubSeq(b, 1, Len(a))

BroadcastsSince(w) == SubSeq(bus_log, bus_sub[w], Len(bus_log))

\* C18: what a plot worker has handled is, in the coordinator's broadcast
\* order and each message once, an initial part of what was broadcast since
\* the worker subscribed; a worker that has handled Shutdown has handled all
\* of it, Shutdown last.
C18_BroadcastFifo ==
    \A w \in WorkerIds :
        bus_reader[w].state # "none" =>
            /\ IsPrefix(bus_handled[w], BroadcastsSince(w))
            /\ ShutdownSent(bus_handled[w]) =>
                   /\ bus_handled[w] = BroadcastsSince(w)
                   /\ bus_handled[w][Len(bus_handled[w])].type = "Shutdown"

C18_Witness ==
    /\ \A w \in WorkerIds : ShutdownSent(bus_handled[w])
    /\ Len(bus_handled[1]) = MaxBroadcasts + 1
    /\ Len(bus_handled[2]) = 2

Sent(c, packet) == \E i \in 1..Len(c.sent) : c.sent[i] = packet

\* C19: a connection whose handshake asked for Login with another protocol
\* version is sent the version-mismatch disconnect and closed, and is never
\* sent LoginSuccess nor promoted to a Player; a connection is sent that
\* disconnect only for such a handshake, so never for a Status handshake nor
\* for a Login handshake with the server's version.
C19_VersionMismatchStopsLogin ==
    /\ login_conn.mismatch =>
           /\ Sent(login_conn, "DisconnectVersionMismatch")
           /\ login_conn.closed
           /\ ~Sent(login_conn, "LoginSuccess")
           /\ ~login_conn.promoted
    /\ (Sent(login_conn, "DisconnectVersionMismatch") \/ login_conn.closed) =>
           login_conn.mismatch

WhitelistHas(check) ==
    IF check.uuid # None
    THEN \E entry \in login_cfg.whitelist[1] : entry.uuid = check.uuid[1]
    ELSE \E entry \in login_cfg.whitelist[1] : entry.name = check.name

\* C20: with the whitelist enabled, a client whose uuid (its username when the
\* proxy gave it no uuid) is not on the whitelist is sent the not-whitelisted
\* disconnect at login, is never sent LoginSuccess and is never promoted to a
\* Player; a client that is on the whitelist is sent LoginSuccess.
C20_WhitelistRejects ==
    login_cfg.whitelist # None =>
        \A i \in 1..Len(login_conn.checks) :
            IF WhitelistHas(login_conn.checks[i])
            THEN Sent(login_conn, "LoginSuccess")
            ELSE /\ Sent(login_conn, "DisconnectNotWhitelisted")
                 /\ ~Sent(login_conn, "LoginSuccess")
                 /\ ~login_conn.promoted

HasShutdown(w) == \E i \in 1..Len(bus_rx[w]) : bus_rx[w][i].type = "Shutdown"

\* C22: a worker's running flag goes from true to false only in an iteration
\* that finds Shutdown on the broadcast bus or that finds the plot without
\* players, without players arriving and not always running (idle eviction);
\* it never goes back to true; a worker whose flag is false has finished that
\* iteration and left the loop, and from there it only unloads, saves and
\* exits.
C22_RunningOnlyFalls ==
    /\ [][\A w \in WorkerIds :
            /\ (running[w] /\ ~running'[w]) =>
                   /\ pc[w] = "loop"
                   /\ \/ HasShutdown(w)
                      \/ /\ players[w] = <<>> /\ priv_inbox[w] = <<>>
                         /\ ~always_running[w]
            /\ ~running[w] => ~running'[w]
            /\ ~running[w] =>
                   \/ pc'[w] = pc[w]
                   \/ pc[w] = "drop" /\ pc'[w] = "final_save"
                   \/ pc[w] = "final_save" /\ pc'[w] = "exited"]_vars
    /\ [](\A w \in WorkerIds : ~running[w] => pc[w] \in {"drop", "final_save", "exited"})

C22_Witness ==
    /\ srv_pc = "run"
    /\ \E w \in WorkerIds : ~running[w] /\ pc[w] = "exited"
    /\ \E w \in WorkerIds : running[w] /\ pc[w] = "loop"

\* C23: while a backend is active, a use-item-on-block that passed the bounds,
\* wand and permission checks, by a player who is not crouching, on a lever or
\* a stone button calls backend.on_use_block, then backend.flush, then
\* world.flush_block_changes and nothing else: the interpreter's interaction
\* code is not run, the backend is not reset and the same backend is active
\* afterwards.
C23_LeverDelegatedToBackend ==
    (/\ interact_op.kind = "use" /\ interact_op.gate = "ok"
     /\ interact_op.backend_before # None
     /\ interact_op.lever_or_button /\ ~interact_op.crouching) =>
        /\ interact_op.calls = <<"on_use_block", "flush", "flush_block_changes">>
        /\ interact_op.backend_after = interact_op.backend_before

C23_Witness ==
    /\ interact_op.kind = "use" /\ interact_op.gate = "ok"
    /\ interact_op.backend_before # None
    /\ interact_op.lever_or_button /\ ~interact_op.crouching
    /\ interact_op.io_only

OtherUse ==
    /\ interact_op.kind = "use"
    /\ interact_op.backend_before # None
    /\ ~(interact_op.lever_or_button /\ ~interact_op.crouching)

ResetOrRejected ==
    IF interact_op.io_only
    THEN /\ interact_op.error = "ERROR_IO_ONLY"
         /\ \E i \in 1..Len(interact_op.calls) : interact_op.calls[i] = "cancel"
         /\ \A i \in 1..Len(interact_op.calls) :
                interact_op.calls[i] \notin {"reset_backend", "use_item_on_block", "on_use"}
         /\ interact_op.world_kept
         /\ interact_op.backend_after = interact_op.backend_before
    ELSE /\ interact_op.calls # <<>> /\ interact_op.calls[1] = "reset_backend"
         /\ interact_op.backend_after = None

\* C24 as stated: while a backend is active, every use-item-on-block other
\* than a click on a lever or button by a player who is not crouching resets
\* the backend before the interaction is applied, unless the backend is
\* io_only: then it is cancelled with the io-only message, the world is
\* unchanged and the backend stays active.
C24_AnyOtherUseResets == OtherUse => ResetOrRejected

\* C24, amended: the same for every such use-item-on-block that passed the
\* bounds check, the WorldEdit wand check and the permission check; one that
\* fails a check is cancelled and leaves the backend active.
C24_PermittedOtherUseResets ==
    OtherUse =>
        IF interact_op.gate = "ok" THEN ResetOrRejected
        ELSE /\ interact_op.backend_after = interact_op.backend_before
             /\ interact_op.world_kept

C24_Witness ==
    /\ OtherUse /\ interact_op.gate = "ok" /\ ~interact_op.io_only
    /\ interact_op.lever_or_button /\ interact_op.crouching
    /\ Len(interact_op.calls) = 1

\* C25: a pressure-plate change made while a backend is active is one call of
\* that backend's set_pressure_plate with the plate's position and its new
\* state, and the worker writes no block and updates no surroundings; made
\* while no backend is active it is a set_block of the plate followed by
\* update_surrounding_blocks of the plate's position and of the position
\* beneath it, and the world holds the plate's new state.
PlateChanges ==
    (IF /\ plate_op.before[plate_op.old] = "on"
        /\ GroundedOn(plate_op.old, player_pos, on_ground) = {}
     THEN <<<<plate_op.old, FALSE>>>> ELSE <<>>)
    \o (IF /\ plate_op.new_block = "off"
           /\ on_ground[plate_op.player_idx]
        THEN <<<<plate_op.new, TRUE>>>> ELSE <<>>)

C25_PlateChangeDelegated ==
    plate_op.player_idx # 0 =>
        IF plate_op.backend # None
        THEN /\ plate_op.after = plate_op.before
             /\ Len(plate_op.calls) = Len(PlateChanges)
             /\ \A i \in 1..Len(plate_op.calls) :
                    plate_op.calls[i] =
                        [fn |-> "backend.set_pressure_plate",
                         backend |-> plate_op.backend[1],
                         pos |-> PlateChanges[i][1], powered |-> PlateChanges[i][2]]
        ELSE /\ Len(plate_op.calls) = 3 * Len(PlateChanges)
             /\ \A i \in 1..Len(PlateChanges) :
                    LET pos == PlateChanges[i][1]
                        powered == PlateChanges[i][2]
                    IN  /\ plate_op.calls[3 * i - 2] =
                               [fn |-> "set_block", backend |-> 0, pos |-> pos,
                                powered |-> powered]
                        /\ plate_op.calls[3 * i - 1] =
                               [fn |-> "update_surrounding_blocks", backend |-> 0,
                                pos |-> pos, powered |-> powered]
                        /\ plate_op.calls[3 * i] =
                               [fn |-> "update_surrounding_blocks", backend |-> 0,
                                pos |-> <<"below", pos>>, powered |-> powered]
                        /\ plate_op.after[pos] = IF powered THEN "on" ELSE "off"
             /\ \A b \in PlateBlocks :
                    (\A i \in 1..Len(PlateChanges) : PlateChanges[i][1] # b) =>
                        plate_op.after[b] = plate_op.before[b]

C25_Witness ==
    /\ plate_op.backend # None
    /\ Len(plate_op.calls) = 2
    /\ \E b \in PlateBlocks : plates[b] = "on"

FullReload ==
    /\ view_op.cur # <<>>
    /\ \/ view_op.force_load
       \/ \E i \in 1..2 :
              view_op.last[i] - view_op.cur[i] > 2 * view_distance
              \/ view_op.cur[i] - view_op.last[i] > 2 * view_distance

Square(c) ==
    {<<x, z>> : x \in (c[1] - view_distance)..(c[1] + view_distance),
                z \in (c[2] - view_distance)..(c[2] + view_distance)}

SquareSize == (2 * view_distance + 1) * (2 * view_distance + 1)

ReloadLoadsNewSquare ==
    FullReload =>
        LET n == Len(view_op.packets)
            loads == {i \in (n - SquareSize + 1)..n : i >= 1}
        IN  /\ n >= 1 + SquareSize
            /\ \A c \in Square(view_op.cur) :
                   Cardinality({i \in loads :
                       /\ view_op.packets[i].kind \in {"chunk", "empty"}
                       /\ <<view_op.packets[i].x, view_op.packets[i].z>> = c}) = 1
            /\ \A i \in loads : view_op.packets[i].kind = "chunk" <=>
                   <<view_op.packets[i].x \div PLOT_WIDTH,
                     view_op.packets[i].z \div PLOT_WIDTH>> = world_xz
            /\ last_chunk = view_op.cur

\* C26: an update of the view position that is forced, or that finds the
\* player more than 2 * view_distance chunks from its last chunk on an axis,
\* first sends an empty-chunk packet for every chunk of the square of
\* view_distance around the last chunk, then one load for every chunk of the
\* square of view_distance around the new chunk, each chunk once; afterwards
\* last_chunk is the new chunk.
C26_FullReloadUnloadsAndLoads ==
    /\ ReloadLoadsNewSquare
    /\ FullReload =>
           /\ Len(view_op.packets) = 1 + 2 * SquareSize
           /\ \A c \in Square(view_op.last) :
                  \E i \in 2..(1 + SquareSize) :
                      /\ i <= Len(view_op.packets)
                      /\ view_op.packets[i].kind = "empty"
                      /\ <<view_op.packets[i].x, view_op.packets[i].z>> = c

Paced == pace_op # NoPace /\ pace_op.present /\ pace.tps > 0

\* What C27 says of an iteration that computed its batch.
PacedAsStated ==
    LET dur_per_tick == NanosPerSec \div pace.tps
        world_send_rate == NanosPerSec \div pace.world_send_rate
        max_batch == IF pace_op.last_nspt = None \/ pace_op.last_nspt = Some(0) THEN 1
                     ELSE Max(1, world_send_rate \div pace_op.last_nspt[1])
        lag == pace_op.lag_time + pace_op.since_update
    IN  /\ dur_per_tick > 0
        /\ pace_op.batch = Min(lag \div dur_per_tick, max_batch)
        /\ pace.lag_time = lag - dur_per_tick * (lag \div dur_per_tick)
        /\ pace.lag_time < dur_per_tick

PacedBelowOneGHz == (Paced /\ pace.tps <= NanosPerSec) => (~pace.panicked /\ PacedAsStated)

\* C27: under Tps::Limited(tps) with tps > 0 and players present, an iteration
\* adds the time since last_update to lag_time, runs
\* min(floor(lag_time / dur_per_tick), max_batch_size) ticks with
\* dur_per_tick = 1s / tps, and takes dur_per_tick * floor(lag_time /
\* dur_per_tick) off lag_time, which is below dur_per_tick afterwards;
\* max_batch_size is max(1, world send period / last_nspt), and 1 when
\* last_nspt is None or zero.
C27_TickPacing == Paced => (~pace.panicked /\ PacedAsStated)

\* C28: an iteration of the worker that finds players empty runs no tick of
\* the interpreter and none of the backend and flushes no block changes:
\* to_be_ticked, the blocks, the dirty lists and what the clients were sent
\* are as they were before its tick step.
C28_NoPlayersNoTicks ==
    ~pace_op.present =>
        /\ pace_op.batch = 0 /\ pace_op.ticks = 0 /\ pace_op.by = "none"
        /\ ~pace_op.flushed
        /\ pace_op.kept

C28_Witness ==
    /\ ~pace_op.present /\ pace_op.lag_time > 0
    /\ to_be_ticked # <<>> /\ multi_blocks # {}
    /\ active_backend = None

LoadFails(w) == pc[w] = "load" /\ pc'[w] = "exited"

\* C29: a worker whose plot fails to load sends the initial player, if there
\* is one, placed in the spawn plot (in plot (1, 0) when the failing plot is
\* the spawn plot), in PlayerLeavePlot, then PlotUnload of its plot, once, and
\* ends there, without entering the loop; when the coordinator has handled a
\* PlotUnload, running_plots has no entry for that plot.
C29_LoadFailureUnloads ==
    /\ [][\A w \in WorkerIds :
            /\ LoadFails(w) =>
                   LET away == [i \in 1..Len(initial_player[w]) |->
                                   [type |-> "PlayerLeavePlot",
                                    arg |-> [initial_player[w][i] EXCEPT
                                                !.pos = IF plot_of[w] = <<0, 0>>
                                                        THEN <<1, 0>> ELSE <<0, 0>>]]]
                   IN  /\ inbox' = inbox \o away
                                       \o <<[type |-> "PlotUnload", arg |-> plot_of[w]]>>
                       /\ players'[w] = <<>>
            /\ pc[w] = "exited" => pc'[w] = "exited"]_vars
    /\ [][(/\ srv_pc = "run" /\ inbox # <<>> /\ inbox' = Tail(inbox)
           /\ Head(inbox).type = "PlotUnload") =>
              \A i \in 1..Len(running_plots') :
                  running_plots'[i].plot # Head(inbox).arg]_vars

C29_Witness ==
    \E w \in WorkerIds :
        /\ pc[w] = "exited" /\ running[w] /\ plot_of[w] = <<0, 0>>
        /\ Len(inbox) >= 2
        /\ inbox[Len(inbox) - 1].type = "PlayerLeavePlot"
        /\ inbox[Len(inbox) - 1].arg.pos = <<1, 0>>
        /\ inbox[Len(inbox)] = [type |-> "PlotUnload", arg |-> <<0, 0>>]

Teardown(w) == pc[w] = "drop" /\ pc'[w] # "drop"

TeardownHandsPlayersBack ==
    [][\A w \in WorkerIds :
          Teardown(w) =>
              /\ inbox' = inbox
                     \o [i \in 1..Len(players[w]) |->
                            [type |-> "PlayerLeavePlot",
                             arg |-> [players[w][i] EXCEPT
                                         !.pos = IF plot_of[w] = <<0, 0>>
                                                 THEN <<1, 0>> ELSE <<0, 0>>]]]
                     \o <<[type |-> "PlotUnload", arg |-> plot_of[w]]>>
              /\ players'[w] = <<>>]_vars

\* C30: a worker that panics anywhere in its loop, also while it holds the
\* world lock, goes through its teardown: the process keeps running, and the
\* teardown sends every player of the plot, placed in the spawn plot (in plot
\* (1, 0) when the plot is the spawn plot), in PlayerLeavePlot, leaves players
\* empty and sends PlotUnload of the plot once, after the last
\* PlayerLeavePlot.
C30_PanicRunsTeardown ==
    /\ TeardownHandsPlayersBack
    /\ [][\A w \in WorkerIds :
             (pc[w] = "loop" /\ running[w] /\ exit_code = -1) =>
                 /\ exit_code' \in {-1, 0}
                 /\ (pc'[w] # "loop" /\ running'[w]) => pc'[w] = "drop"]_vars

\* A step in which handle_message takes a message of the type from the inbox.
Handled(type) ==
    srv_pc = "run" /\ inbox # <<>> /\ Head(inbox).type = type /\ inbox' = Tail(inbox)

CountOf(log, type, uuid) ==
    Cardinality({i \in 1..Len(log) : log[i].type = type /\ log[i].uuid = uuid})

\* C31: handling PlayerJoined broadcasts PlayerJoinedInfo of the player once
\* and does so before send_player_to_plot; handling PlayerLeavePlot broadcasts
\* nothing, however often the player changes plots; handling PlayerLeft takes
\* the uuid out of online_players and broadcasts PlayerLeft of it once; no
\* other step of the coordinator or of a worker adds a join or a leave to the
\* broadcasts.
C31_JoinAndLeaveBroadcasts ==
    [][/\ (Handled("PlayerJoined") =>
              /\ srv_broadcasts' =
                     Append(srv_broadcasts, [type |-> "PlayerJoinedInfo",
                                             uuid |-> Head(inbox).arg.uuid])
              /\ srv_op'.calls[1].fn = "broadcast"
              /\ srv_op'.calls[Len(srv_op'.calls)].fn = "send_player_to_plot"
              /\ online_players'[Head(inbox).arg.uuid] = Head(inbox).arg.pos)
        /\ (Handled("PlayerLeavePlot") => srv_broadcasts' = srv_broadcasts)
        /\ (Handled("PlayerLeft") =>
              /\ srv_broadcasts' =
                     Append(srv_broadcasts, [type |-> "PlayerLeft", uuid |-> Head(inbox).arg])
              /\ online_players'[Head(inbox).arg] = NoPlot)
        /\ ((\A t \in {"PlayerJoined", "PlayerLeft", "Shutdown"} : ~Handled(t)) =>
              srv_broadcasts' = srv_broadcasts)]_vars

C31_Witness ==
    /\ srv_op.message.type = "PlayerLeavePlot"
    /\ \E i \in 1..Len(srv_broadcasts) :
           /\ srv_broadcasts[i].type = "PlayerJoinedInfo"
           /\ srv_broadcasts[i].uuid = srv_op.message.arg.uuid
    /\ \A i \in 1..Len(srv_broadcasts) : srv_broadcasts[i].type # "PlayerLeft"
    /\ \A u \in Uuids : CountOf(srv_broadcasts, "PlayerJoinedInfo", u) <= 1

HasEntry(rp, plot) == \E i \in 1..Len(rp) : rp[i].plot = plot

\* A step in which handle_message routes the player at the head of the inbox.
Routed == Handled("PlayerJoined") \/ Handled("PlayerLeavePlot")

IsResponse(h) == h.packet.type = "LoginPluginResponse"

\* The response answers the request last sent to the connection, is marked
\* successful, decodes, and its signature is the HMAC of its payload under the
\* shared secret.
ValidResponse(h) ==
    /\ IsResponse(h)
    /\ h.before.forwarding_message_id = Some(h.packet.message_id)
    /\ h.packet.successful
    /\ h.packet.data # None
    /\ h.packet.data[1].signature = Hmac(Secret, h.packet.data[1].payload)

NewlySent(h) == SubSeq(h.after.sent, Len(h.before.sent) + 1, Len(h.after.sent))

SendsLoginSuccess(h) == \E i \in 1..Len(NewlySent(h)) : NewlySent(h)[i] = "LoginSuccess"

\* C33: behind the proxy, LoginStart sends the plugin request and nothing
\* else: neither compression nor LoginSuccess. A plugin response whose
\* message_id is the one issued to the connection, that is marked successful,
\* decodes and carries the HMAC of its payload under the shared secret
\* completes the login: the connection takes the uuid and the properties of
\* the payload, compression is on, and LoginSuccess is sent. Every other
\* response leaves uuid and properties as they were and sends nothing, and no
\* other packet makes the server send LoginSuccess.
C33_ForwardingCompletesLogin ==
    \A i \in 1..Len(login_conn.handled) :
        LET h == login_conn.handled[i]
        IN  /\ h.packet.type = "LoginStart" =>
                   /\ NewlySent(h) = <<"LoginPluginRequest">>
                   /\ h.after.forwarding_message_id # None
                   /\ h.after.compressed = h.before.compressed
                   /\ h.after.uuid = h.before.uuid
            /\ ValidResponse(h) =>
                   /\ h.after.uuid = Some(h.packet.data[1].payload.uuid)
                   /\ h.after.properties = h.packet.data[1].payload.properties
                   /\ h.after.compressed
                   /\ NewlySent(h)[1] = "SetCompression"
                   /\ NewlySent(h)[Len(NewlySent(h))] = "LoginSuccess"
            /\ IsResponse(h) /\ ~ValidResponse(h) =>
                   /\ h.after.uuid = h.before.uuid
                   /\ h.after.properties = h.before.properties
                   /\ h.after.compressed = h.before.compressed
                   /\ NewlySent(h) = <<>>
            /\ SendsLoginSuccess(h) => ValidResponse(h)

C33_Witness ==
    \E i, j \in 1..Len(login_conn.handled) :
        /\ i < j
        /\ IsResponse(login_conn.handled[i])
        /\ login_conn.handled[i].before.forwarding_message_id
               = Some(login_conn.handled[i].packet.message_id)
        /\ login_conn.handled[i].packet.successful
        /\ login_conn.handled[i].packet.data # None
        /\ ~ValidResponse(login_conn.handled[i])
        /\ ValidResponse(login_conn.handled[j])
        /\ login_conn.uuid = Some(login_conn.handled[j].packet.data[1].payload.uuid)
        /\ login_conn.handled[j].before.uuid = None

\* C34: in graceful_shutdown the coordinator never calls receiver.try_recv
\* again without having slept since its previous call, also when the previous
\* call found the inbox empty.
C34_SleepsBetweenPolls ==
    (srv_pc = "shutdown_inner" /\ poll_op.polled) => poll_op.slept

\* The thread of the worker exists and has not finished Drop for Plot.
Live(w) == pc[w] \in {"load", "loop", "drop", "final_save"}

\* C35: no two live workers have the same plot: while a worker of (x, z) has
\* not finished the backend reset and the save that end its teardown, the
\* coordinator spawns no other worker for (x, z).
C35_OneLiveWorkerPerPlot ==
    \A v, w \in WorkerIds : (v # w /\ Live(v) /\ Live(w)) => plot_of[v] # plot_of[w]

Unloads(plot) ==
    Cardinality({i \in 1..Len(inbox) : inbox[i] = Msg("PlotUnload", plot)})

\* A step in which graceful_shutdown takes a message of the type from the inbox.
Polled(type) ==
    /\ srv_pc = "shutdown_inner" /\ inbox # <<>>
    /\ Head(inbox).type = type /\ inbox' = Tail(inbox)

\* C40: no two entries of running_plots have the same plot. Every entry
\* belongs to the one worker thread that was spawned with it, and running_plots
\* changes only by the entry a spawn appends and by the one entry the handling
\* of a PlotUnload removes; a worker sends PlotUnload at most once, so no entry
\* has more than one PlotUnload on its way.
C40_NoDuplicateEntries ==
    /\ [](\A i, j \in 1..Len(running_plots) :
              i # j => /\ running_plots[i].plot # running_plots[j].plot
                       /\ running_plots[i].tx # running_plots[j].tx)
    /\ [](\A i \in 1..Len(running_plots) :
              /\ pc[running_plots[i].tx] # "none"
              /\ plot_of[running_plots[i].tx] = running_plots[i].plot
              /\ Unloads(running_plots[i].plot)
                     = IF pc[running_plots[i].tx] \in {"final_save", "exited"}
                       THEN 1 ELSE 0)
    /\ [](\A p \in Plots : Unloads(p) > 0 => HasEntry(running_plots, p))
    /\ [][\/ running_plots' = running_plots
          \/ /\ Routed
             /\ \E w \in WorkerIds :
                    /\ pc[w] = "none" /\ pc'[w] = "load"
                    /\ running_plots' =
                           Append(running_plots, [plot |-> Head(inbox).arg.pos, tx |-> w])
          \/ /\ Handled("PlotUnload") \/ Polled("PlotUnload")
             /\ Len(running_plots') = Len(running_plots) - 1]_vars

C40_Witness ==
    /\ Len(running_plots) = 1
    /\ \E v, w \in WorkerIds :
           /\ v # w
           /\ plot_of[v] = plot_of[w]
           /\ pc[v] = "final_save"
           /\ pc[w] = "loop"
           /\ players[w] # <<>>
           /\ HasEntry(running_plots, plot_of[w])

\* C36: when the coordinator has left graceful_shutdown through
\* process::exit(0), no plot worker is still in its loop or in Drop for Plot:
\* each one has finished reset_backend and its save.
C36_ExitAfterFinalSaves ==
    (srv_pc = "exited" /\ exit_code = 0) => \A w \in WorkerIds : ~Live(w)

\* C37: between two steps of a plot's loop packet_senders is as long as
\* players and its i-th entry writes to the connection of the i-th player,
\* whatever players entered, left, disconnected, and after a shutdown.
C37_SendersParallelToPlayers == packet_senders = plot_players


Pending(id) == \E i \in 1..Len(to_be_ticked) : to_be_ticked[i].id = id

\* An entry scheduled between two ticks with delay d fires once, in the
\* max(d, 1)-th tick after schedule_tick, and is pending exactly until then.
ScheduledBetweenTicksFireOnTime ==
    \A id \in 1..Len(tick_log) :
        LET e == tick_log[id]
            due == e.at + Max(e.delay, 1)
        IN  ~e.in_tick =>
                /\ e.fired = IF tick_no >= due THEN <<due>> ELSE <<>>
                /\ Pending(id) <=> tick_no < due

\* C38: in interpreter mode an entry scheduled between two ticks with delay d
\* is handed to the redstone library once, in the max(d, 1)-th tick after it
\* was scheduled, and leaves to_be_ticked when it fires; no entry fires twice,
\* and at the end of a tick no entry of to_be_ticked has ticks_left = 0.
C38_EntriesFireOnTime ==
    /\ [](ScheduledBetweenTicksFireOnTime)
    /\ [](\A id \in 1..Len(tick_log) : Len(tick_log[id].fired) <= 1)
    /\ [][tick_no' = tick_no + 1 =>
              \A i \in 1..Len(to_be_ticked') : to_be_ticked'[i].ticks_left > 0]_vars

\* C39: with no backend active, every powered pressure plate of the plot has a
\* player of the plot standing on its block with on_ground = true, after any
\* moves, plot leaves (on foot or by teleport) and disconnects, also those of
\* the player that stands on the plate.
C39_PoweredPlateHasPlayer ==
    active_backend = None =>
        \A b \in PlateBlocks :
            plates[b] = "on" =>
                \E q \in Residents : InPlot(q) /\ player_pos[q] = b /\ on_ground[q]
====
